---------------------------- MODULE Spec2Model ----------------------------
(***************************************************************************)
(* The tab-title content script (src/content.js, first script revision),  *)
(* as a state machine.  A JavaScript string is a sequence of one-character *)
(* strings, so that trimming, splitting, case conversion and the regular   *)
(* expressions of the script are computed character by character.          *)
(***************************************************************************)
EXTENDS Integers, Sequences, FiniteSets, TLC

VARIABLES
    location,     \* frame -> [hostname, pathname, hash]   (window.location)
    dom,          \* frame -> the document: elements in document order
    title,        \* frame -> document.title
    referrer,     \* frame -> document.referrer
    throwing,     \* the strategies whose call throws on the current page
    injected,     \* frame -> window.__ghlTabTitleInjected
    inits,        \* frame -> number of executions that reached init()
    ready,        \* frame -> init() has run (timers, observers installed)
    listening,    \* frame -> the 'message' listener is installed
    msgs,         \* messages posted and not yet delivered
    assigned,     \* frames whose document.title the script has assigned
    last,         \* the last operation and what it did
    body,         \* document.body of the top frame exists
    timers,       \* pending setTimeout callbacks of the top frame
    lastUrl,      \* setupObserver's lastUrl, once the observers are installed
    burst,        \* bookkeeping of the current burst of mutation callbacks
    events,       \* number of things the page and the user have done
    driven,       \* debounce-driven cycles since the last trigger
    settings,     \* chrome.storage.sync: the value stored under 'settings'
    tab,          \* the tab's URL as the browser reports it (tab.url)
    handlers,     \* calls of handleTabUpdate waiting for getSettings()
    dispatch,     \* the dispatcher's last decision and what it was based on
    popup         \* the popup: its DEFAULT_SETTINGS object and its operations

frameVars == <<location, dom, title, referrer, throwing, injected, inits,
               ready,
               listening, msgs, assigned, last>>
schedVars == <<body, timers, lastUrl, burst, events, driven>>
dispatchVars == <<settings, tab, handlers, dispatch, popup>>
vars == <<location, dom, title, referrer, throwing, injected, inits, ready,
          listening, msgs, assigned, last, body, timers, lastUrl, burst,
          events, driven, settings, tab, handlers, dispatch, popup>>

---------------------------------------------------------------------------
(* Characters and strings *)

LowerSeq ==
    <<"a", "b", "c", "d", "e", "f", "g", "h", "i", "j", "k", "l", "m",
      "n", "o", "p", "q", "r", "s", "t", "u", "v", "w", "x", "y", "z">>
UpperSeq ==
    <<"A", "B", "C", "D", "E", "F", "G", "H", "I", "J", "K", "L", "M",
      "N", "O", "P", "Q", "R", "S", "T", "U", "V", "W", "X", "Y", "Z">>
Lower == {LowerSeq[i] : i \in DOMAIN LowerSeq}
Upper == {UpperSeq[i] : i \in DOMAIN UpperSeq}
Digit == {"0", "1", "2", "3", "4", "5", "6", "7", "8", "9"}
AlphaNum == Lower \cup Upper \cup Digit
\* the characters matched by \s that occur in the modelled documents
WhiteSpace == {" ", "\t", "\n"}

SetMin(S) == CHOOSE x \in S : \A y \in S : x <= y
SetMax(S) == CHOOSE x \in S : \A y \in S : x >= y

toUpperCaseChar(c) ==
    IF c \in Lower THEN UpperSeq[CHOOSE i \in DOMAIN LowerSeq : LowerSeq[i] = c]
    ELSE c
toLowerCaseChar(c) ==
    IF c \in Upper THEN LowerSeq[CHOOSE i \in DOMAIN UpperSeq : UpperSeq[i] = c]
    ELSE c
\* a sequence given as a function on 1..n, as a tuple
asTuple(f) == f \o <<>>

toLowerCase(s) == asTuple([i \in 1..Len(s) |-> toLowerCaseChar(s[i])])

\* the positions of s, in order
positions(s) == asTuple([i \in 1..Len(s) |-> i])

\* String.prototype.trim
trim(s) ==
    LET solid == SelectSeq(positions(s), LAMBDA i : s[i] \notin WhiteSpace)
    IN  IF solid = <<>> THEN <<>> ELSE SubSeq(s, solid[1], solid[Len(solid)])

\* String.prototype.includes
includes(s, sub) ==
    \E i \in 0..(Len(s) - Len(sub)) : SubSeq(s, i + 1, i + Len(sub)) = sub

\* s.substring(0, n)
substring0(s, n) == SubSeq(s, 1, IF Len(s) < n THEN Len(s) ELSE n)

\* s.split(sep) for a one-character separator
split(s, sep) ==
    LET at == SelectSeq(positions(s), LAMBDA i : s[i] = sep)
        from(k) == IF k = 1 THEN 1 ELSE at[k - 1] + 1
        to(k) == IF k > Len(at) THEN Len(s) ELSE at[k] - 1
    IN  asTuple([k \in 1..(Len(at) + 1) |->
            IF from(k) > to(k) THEN <<>> ELSE SubSeq(s, from(k), to(k))])

\* s.replace(/\s+/g, ' '): a run of whitespace keeps one position, as a space
collapseWhitespace(s) ==
    LET kept == SelectSeq(positions(s),
                    LAMBDA i : s[i] \notin WhiteSpace
                               \/ i = 1 \/ s[i - 1] \notin WhiteSpace)
    IN  asTuple([k \in 1..Len(kept) |->
            IF s[kept[k]] \in WhiteSpace THEN " " ELSE s[kept[k]]])

\* a JavaScript value that is a string, or null/undefined
Null == [found |-> FALSE, text |-> <<>>]
Str(t) == [found |-> TRUE, text |-> t]
TruthyAlways(v) == TRUE

\* truthiness of such a value: null and "" are falsy
Truthy(v) == v.found /\ Len(v.text) > 0

---------------------------------------------------------------------------
(* String literals of the script *)

\* " | "
titleSeparator ==
    <<" ", "|", " ">>

\* "GHL"
defaultBrandName ==
    <<"G", "H", "L">>

\* "IgHEOk98NvraO0gtWVaL"
IdFedImpact ==
    <<"I", "g", "H", "E", "O", "k", "9", "8", "N", "v", "r", "a", "O", "0",
      "g", "t", "W", "V", "a", "L">>

\* "8K55T8slMH0JRhCDHBEW"
IdProFeds ==
    <<"8", "K", "5", "5", "T", "8", "s", "l", "M", "H", "0", "J", "R", "h",
      "C", "D", "H", "B", "E", "W">>

\* "FedImpact"
BrandFedImpact ==
    <<"F", "e", "d", "I", "m", "p", "a", "c", "t">>

\* "ProFeds"
BrandProFeds ==
    <<"P", "r", "o", "F", "e", "d", "s">>

\* "app.gohighlevel.com"
HostApp ==
    <<"a", "p", "p", ".", "g", "o", "h", "i", "g", "h", "l", "e", "v", "e",
      "l", ".", "c", "o", "m">>

\* "client.leadconnectorhq.com"
HostFrame ==
    <<"c", "l", "i", "e", "n", "t", ".", "l", "e", "a", "d", "c", "o", "n",
      "n", "e", "c", "t", "o", "r", "h", "q", ".", "c", "o", "m">>

\* "https://"
Scheme ==
    <<"h", "t", "t", "p", "s", ":", "/", "/">>

\* "/v2/location/X/some-custom-report"
PathCustomReport ==
    <<"/", "v", "2", "/", "l", "o", "c", "a", "t", "i", "o", "n", "/", "X",
      "/", "s", "o", "m", "e", "-", "c", "u", "s", "t", "o", "m", "-", "r",
      "e", "p", "o", "r", "t">>

\* "/v2/location/IgHEOk98NvraO0gtWVaL/contacts/detail/abc"
PathContactFed ==
    <<"/", "v", "2", "/", "l", "o", "c", "a", "t", "i", "o", "n", "/", "I",
      "g", "H", "E", "O", "k", "9", "8", "N", "v", "r", "a", "O", "0", "g",
      "t", "W", "V", "a", "L", "/", "c", "o", "n", "t", "a", "c", "t", "s",
      "/", "d", "e", "t", "a", "i", "l", "/", "a", "b", "c">>

\* "/v2/location/8K55T8slMH0JRhCDHBEW/contacts/detail/xyz"
PathContactPro ==
    <<"/", "v", "2", "/", "l", "o", "c", "a", "t", "i", "o", "n", "/", "8",
      "K", "5", "5", "T", "8", "s", "l", "M", "H", "0", "J", "R", "h", "C",
      "D", "H", "B", "E", "W", "/", "c", "o", "n", "t", "a", "c", "t", "s",
      "/", "d", "e", "t", "a", "i", "l", "/", "x", "y", "z">>

\* "/v2/location/constructor/dashboard"
PathCtorDash ==
    <<"/", "v", "2", "/", "l", "o", "c", "a", "t", "i", "o", "n", "/", "c",
      "o", "n", "s", "t", "r", "u", "c", "t", "o", "r", "/", "d", "a", "s",
      "h", "b", "o", "a", "r", "d">>

\* "/location/X/reports"
PathReports ==
    <<"/", "l", "o", "c", "a", "t", "i", "o", "n", "/", "X", "/", "r", "e",
      "p", "o", "r", "t", "s">>

\* "/v2/location/X/myReports_daily"
PathCamel ==
    <<"/", "v", "2", "/", "l", "o", "c", "a", "t", "i", "o", "n", "/", "X",
      "/", "m", "y", "R", "e", "p", "o", "r", "t", "s", "_", "d", "a", "i",
      "l", "y">>

\* "/v2/location/8K55T8slMH0JRhCDHBEW/workflow/abc"
PathWorkflowTop ==
    <<"/", "v", "2", "/", "l", "o", "c", "a", "t", "i", "o", "n", "/", "8",
      "K", "5", "5", "T", "8", "s", "l", "M", "H", "0", "J", "R", "h", "C",
      "D", "H", "B", "E", "W", "/", "w", "o", "r", "k", "f", "l", "o", "w",
      "/", "a", "b", "c">>

\* "/"
PathRoot ==
    <<"/">>

\* "/workflow/abc123"
PathFrameWorkflow ==
    <<"/", "w", "o", "r", "k", "f", "l", "o", "w", "/", "a", "b", "c", "1",
      "2", "3">>

\* ""
HashNone ==
    <<>>

\* "#/workflow"
HashWorkflow ==
    <<"#", "/", "w", "o", "r", "k", "f", "l", "o", "w">>

\* "/contacts/detail/"
StrContactsDetail ==
    <<"/", "c", "o", "n", "t", "a", "c", "t", "s", "/", "d", "e", "t", "a",
      "i", "l", "/">>

\* "/workflow"
StrSlashWorkflow ==
    <<"/", "w", "o", "r", "k", "f", "l", "o", "w">>

\* "/form-builder"
StrFormBuilder ==
    <<"/", "f", "o", "r", "m", "-", "b", "u", "i", "l", "d", "e", "r">>

\* "/forms/"
StrForms ==
    <<"/", "f", "o", "r", "m", "s", "/">>

\* "/location/"
StrLocationPrefix ==
    <<"/", "l", "o", "c", "a", "t", "i", "o", "n", "/">>

\* "/v2"
StrV2 ==
    <<"/", "v", "2">>

\* "workflow"
StrWorkflow ==
    <<"w", "o", "r", "k", "f", "l", "o", "w">>

\* "workflows"
StrWorkflows ==
    <<"w", "o", "r", "k", "f", "l", "o", "w", "s">>

\* "Crystal Johnson"
StrCrystalJohnson ==
    <<"C", "r", "y", "s", "t", "a", "l", " ", "J", "o", "h", "n", "s", "o",
      "n">>

\* "\n  Crystal   Johnson \n"
StrCrystalRaw ==
    <<"\n", " ", " ", "C", "r", "y", "s", "t", "a", "l", " ", " ", " ",
      "J", "o", "h", "n", "s", "o", "n", " ", "\n">>

\* "My Workflow"
StrMyWorkflow ==
    <<"M", "y", " ", "W", "o", "r", "k", "f", "l", "o", "w">>

\* "Contacts"
StrContacts ==
    <<"C", "o", "n", "t", "a", "c", "t", "s">>

\* "Dashboard"
StrDashboard ==
    <<"D", "a", "s", "h", "b", "o", "a", "r", "d">>

\* "NEW"
StrNewBadge ==
    <<"N", "E", "W">>

\* "Settings"
StrSettings ==
    <<"S", "e", "t", "t", "i", "n", "g", "s">>

\* "Lead Form"
StrLeadForm ==
    <<"L", "e", "a", "d", " ", "F", "o", "r", "m">>

\* "a1B2c3D4e5F6g7H8"
StrOpaqueId ==
    <<"a", "1", "B", "2", "c", "3", "D", "4", "e", "5", "F", "6", "g", "7",
      "H", "8">>

\* "12345"
StrDigits ==
    <<"1", "2", "3", "4", "5">>

\* "7"
StrSeven ==
    <<"7">>

\* "HighLevel"
StrInitialTitle ==
    <<"H", "i", "g", "h", "L", "e", "v", "e", "l">>

\* "Crystal Johnson | ProFeds"
TitleCrystalProFeds ==
    <<"C", "r", "y", "s", "t", "a", "l", " ", "J", "o", "h", "n", "s", "o",
      "n", " ", "|", " ", "P", "r", "o", "F", "e", "d", "s">>

\* "Some Custom Report | GHL"
TitleCustomReportGHL ==
    <<"S", "o", "m", "e", " ", "C", "u", "s", "t", "o", "m", " ", "R", "e",
      "p", "o", "r", "t", " ", "|", " ", "G", "H", "L">>

\* "My Workflow | GHL"
TitleMyWorkflowGHL ==
    <<"M", "y", " ", "W", "o", "r", "k", "f", "l", "o", "w", " ", "|", " ",
      "G", "H", "L">>

\* "() { [native code] }"
StrNativeSuffix ==
    <<"(", ")", " ", "{", " ", "[", "n", "a", "t", "i", "v", "e", " ", "c",
      "o", "d", "e", "]", " ", "}">>

\* "function "
StrFunction ==
    <<"f", "u", "n", "c", "t", "i", "o", "n", " ">>

\* "Object"
StrObject ==
    <<"O", "b", "j", "e", "c", "t">>

\* "constructor"
StrConstructor ==
    <<"c", "o", "n", "s", "t", "r", "u", "c", "t", "o", "r">>

\* "toString"
StrToString ==
    <<"t", "o", "S", "t", "r", "i", "n", "g">>

\* "valueOf"
StrValueOf ==
    <<"v", "a", "l", "u", "e", "O", "f">>

\* "hasOwnProperty"
StrHasOwnProperty ==
    <<"h", "a", "s", "O", "w", "n", "P", "r", "o", "p", "e", "r", "t", "y">>

\* "/v2/location/X/form-builder-v2/f1"
PathFrameForm ==
    <<"/", "v", "2", "/", "l", "o", "c", "a", "t", "i", "o", "n", "/", "X",
      "/", "f", "o", "r", "m", "-", "b", "u", "i", "l", "d", "e", "r", "-",
      "v", "2", "/", "f", "1">>

\* "https://app.gohighlevel.com/v2/location/IgHEOk98NvraO0gtWVaL/dashboard"
RefApp ==
    <<"h", "t", "t", "p", "s", ":", "/", "/", "a", "p", "p", ".", "g", "o",
      "h", "i", "g", "h", "l", "e", "v", "e", "l", ".", "c", "o", "m", "/",
      "v", "2", "/", "l", "o", "c", "a", "t", "i", "o", "n", "/", "I", "g",
      "H", "E", "O", "k", "9", "8", "N", "v", "r", "a", "O", "0", "g", "t",
      "W", "V", "a", "L", "/", "d", "a", "s", "h", "b", "o", "a", "r", "d">>

\* ""
RefNone ==
    <<>>

---------------------------------------------------------------------------
(* CONFIG *)

updateDebounceMs == 150
observerDebounceMs == 100

\* CONFIG.locationNames: its own properties
locationNames ==
    (IdFedImpact :> BrandFedImpact) @@ (IdProFeds :> BrandProFeds)

\* Property names every object literal inherits from Object.prototype, with
\* the string the inherited value converts to in a template literal.
ObjectPrototype ==
    (StrConstructor :> StrFunction \o StrObject \o StrNativeSuffix)
    @@ (StrToString :> StrFunction \o StrToString \o StrNativeSuffix)
    @@ (StrValueOf :> StrFunction \o StrValueOf \o StrNativeSuffix)
    @@ (StrHasOwnProperty :> StrFunction \o StrHasOwnProperty \o StrNativeSuffix)

\* CONFIG.locationNames[key]: an own property, else an inherited one, else
\* undefined.  An inherited value is a function object, not a string.
PropertyGet(key) ==
    IF key \in DOMAIN locationNames
    THEN [found |-> TRUE, text |-> locationNames[key], isString |-> TRUE]
    ELSE IF key \in DOMAIN ObjectPrototype
    THEN [found |-> TRUE, text |-> ObjectPrototype[key], isString |-> FALSE]
    ELSE [found |-> FALSE, text |-> <<>>, isString |-> TRUE]

skipWords ==
    {<<"v", "2">>,
     <<"l", "o", "c", "a", "t", "i", "o", "n">>,
     <<"d", "e", "t", "a", "i", "l">>,
     <<"e", "d", "i", "t">>,
     <<"n", "e", "w">>,
     <<"f", "o", "r", "m", "-", "b", "u", "i", "l", "d", "e", "r", "-", "v", "2">>,
     <<"f", "o", "r", "m", "-", "b", "u", "i", "l", "d", "e", "r">>,
     <<"_", "_">>,
     <<"a", "u", "t", "h">>,
     <<"i", "f", "r", "a", "m", "e">>,
     <<"c", "a", "l", "l", "b", "a", "c", "k">>}

---------------------------------------------------------------------------
(* window.location and the document *)

href(loc) == Scheme \o loc.hostname \o loc.pathname \o loc.hash

\* el.textContent: the text of every part of the element
RECURSIVE joinParts(_, _, _)
joinParts(parts, i, withNoise) ==
    IF i > Len(parts) THEN <<>>
    ELSE (IF withNoise \/ ~parts[i].noise THEN parts[i].text ELSE <<>>)
         \o joinParts(parts, i + 1, withNoise)
textContent(el) == joinParts(el.parts, 1, TRUE)

\* getCleanText: the clone loses its [hidden], .hidden, svg and i
\* descendants; the element itself is left as it is
getCleanText(el) ==
    LET t == trim(joinParts(el.parts, 1, FALSE))
    IN  IF t = <<>> THEN Null ELSE Str(t)

matches(el, selector) == selector \in el.sels

\* document.querySelectorAll(selector), in document order
querySelectorAll(doc, selector) ==
    SelectSeq(doc, LAMBDA el : matches(el, selector))

\* the elements a "for selector: el = querySelector(selector); if (el)" loop
\* looks at, in the order it looks at them
RECURSIVE firstOfEach(_, _, _)
firstOfEach(doc, selectors, i) ==
    IF i > Len(selectors) THEN <<>>
    ELSE LET all == querySelectorAll(doc, selectors[i])
         IN  (IF all = <<>> THEN <<>> ELSE <<all[1]>>)
             \o firstOfEach(doc, selectors, i + 1)

\* the elements a "for selector: for el of querySelectorAll(selector)" loop
\* looks at, in the order it looks at them
RECURSIVE allOfEach(_, _, _)
allOfEach(doc, selectors, i) ==
    IF i > Len(selectors) THEN <<>>
    ELSE querySelectorAll(doc, selectors[i]) \o allOfEach(doc, selectors, i + 1)

\* the first candidate of a loop that passes its test, else null
firstAccepted(cands, ok) ==
    LET hits == {i \in DOMAIN cands : ok[i]}
    IN  IF hits = {} THEN Null ELSE cands[SetMin(hits)]

---------------------------------------------------------------------------
(* Brand Resolver *)

\* s.match(/\/(?:v2\/)?location\/([^\/]+)/): the capture of the leftmost match
captureAt(s, j) ==
    LET stops == {k \in j..Len(s) : s[k] = "/"}
        end == IF stops = {} THEN Len(s) ELSE SetMin(stops) - 1
    IN  IF j > Len(s) THEN <<>> ELSE SubSeq(s, j, end)
hasPrefixAt(s, i, p) ==
    i + Len(p) - 1 <= Len(s) /\ SubSeq(s, i, i + Len(p) - 1) = p
matchLocationAt(s, i) ==
    IF hasPrefixAt(s, i, StrV2 \o StrLocationPrefix)
       /\ captureAt(s, i + Len(StrV2 \o StrLocationPrefix)) # <<>>
    THEN Str(captureAt(s, i + Len(StrV2 \o StrLocationPrefix)))
    ELSE IF hasPrefixAt(s, i, StrLocationPrefix)
            /\ captureAt(s, i + Len(StrLocationPrefix)) # <<>>
    THEN Str(captureAt(s, i + Len(StrLocationPrefix)))
    ELSE Null
matchLocation(s) ==
    LET at == {i \in 1..Len(s) : matchLocationAt(s, i).found}
    IN  IF at = {} THEN Null ELSE matchLocationAt(s, SetMin(at))

---------------------------------------------------------------------------
(* Text Sanitizer *)

isHumanReadable(text) ==
    IF text = <<>> \/ Len(text) < 2 THEN FALSE
    ELSE LET noSpaces == SelectSeq(text, LAMBDA c : c \notin WhiteSpace)
         IN  ~((\A i \in DOMAIN noSpaces : noSpaces[i] \in AlphaNum)
               /\ Len(noSpaces) >= 15
               /\ \A i \in DOMAIN text : text[i] \notin WhiteSpace)

cleanContext(text) == substring0(trim(collapseWhitespace(text)), 60)

---------------------------------------------------------------------------
(* Context Extractors *)

contactSelectors ==
    <<"p.hr-text-semibold span.hr-ellipsis", "#hr-ellipsis-id",
      ".hr-ellipsis.hr-ellipsis--line-clamp">>

extractFromGHLContactDetail(loc, doc) ==
    IF ~includes(loc.pathname, StrContactsDetail)
       /\ ~includes(href(loc), StrContactsDetail)
    THEN Null
    ELSE LET els == firstOfEach(doc, contactSelectors, 1)
             text == asTuple([i \in DOMAIN els |-> trim(textContent(els[i]))])
         IN  firstAccepted(
                 [i \in DOMAIN els |-> Str(text[i])],
                 [i \in DOMAIN els |->
                     text[i] # <<>> /\ Len(text[i]) > 1 /\ Len(text[i]) < 100])

workflowSelectors ==
    <<"#cmp-header__txt--edit-workflow-name", "h1.editable-header-text",
      ".editable-header-text", "#cmp-header__txt--edit-workflow-name-parent h1",
      ".workflow-name-input h1", ".editable-header-text-mirror",
      ".n-ellipsis h1", "span.n-ellipsis h1", "h1">>

\* the workflow extractor without its test of the URL
extractFromGHLWorkflowAnywhere(loc, doc) ==
    LET els == allOfEach(doc, workflowSelectors, 1)
        text == asTuple([i \in DOMAIN els |-> trim(textContent(els[i]))])
    IN  firstAccepted(
            [i \in DOMAIN els |-> Str(text[i])],
            [i \in DOMAIN els |->
                /\ text[i] # <<>>
                /\ Len(text[i]) > 3
                /\ toLowerCase(text[i]) # StrWorkflow
                /\ toLowerCase(text[i]) # StrWorkflows
                /\ ~(\A k \in DOMAIN text[i] : text[i][k] \in Digit)])

extractFromGHLWorkflow(loc, doc) ==
    IF ~(includes(loc.pathname, StrSlashWorkflow)
         \/ includes(href(loc), StrSlashWorkflow))
    THEN Null
    ELSE LET els == allOfEach(doc, workflowSelectors, 1)
             text == asTuple([i \in DOMAIN els |-> trim(textContent(els[i]))])
         IN  firstAccepted(
                 [i \in DOMAIN els |-> Str(text[i])],
                 [i \in DOMAIN els |->
                     /\ text[i] # <<>>
                     /\ Len(text[i]) > 3
                     /\ toLowerCase(text[i]) # StrWorkflow
                     /\ toLowerCase(text[i]) # StrWorkflows
                     /\ ~(\A k \in DOMAIN text[i] : text[i][k] \in Digit)])

formSelectors ==
    <<".builder-form-name > div[contenteditable='true']",
      ".builder-form-name div[contenteditable='true']",
      "div.builder-form-name div[contenteditable]",
      "#builder-header .builder-form-name div[contenteditable]",
      "div[contenteditable='true'].truncate",
      "div.truncate[contenteditable='true']",
      "div[contenteditable='true'].text-lg",
      "div[contenteditable='true']">>

extractFromGHLFormBuilder(loc, doc) ==
    IF ~(includes(loc.pathname, StrFormBuilder)
         \/ includes(loc.pathname, StrForms)
         \/ includes(href(loc), StrFormBuilder)
         \/ includes(href(loc), StrForms))
    THEN Null
    ELSE LET els == allOfEach(doc, formSelectors, 1)
             text == asTuple([i \in DOMAIN els |-> trim(textContent(els[i]))])
         IN  firstAccepted(
                 [i \in DOMAIN els |-> Str(text[i])],
                 [i \in DOMAIN els |->
                     /\ text[i] # <<>>
                     /\ Len(text[i]) > 1
                     /\ Len(text[i]) < 100
                     /\ isHumanReadable(text[i])])

\* the test shared by the three generic extractors, with their length limit
genericAccepts(v, limit) ==
    Truthy(v) /\ Len(v.text) > 1 /\ Len(v.text) < limit /\ isHumanReadable(v.text)

navSelectors ==
    <<"[class*='active'] [class*='menu-item-text']",
      "[class*='active'] [class*='nav-text']", ".nav-link.active",
      "[aria-current='page']", ".hl-nav-item.active", ".sidebar-item.active">>

extractFromActiveNavItem(doc) ==
    LET els == allOfEach(doc, navSelectors, 1)
        text == asTuple([i \in DOMAIN els |-> getCleanText(els[i])])
    IN  firstAccepted(text, [i \in DOMAIN els |-> genericAccepts(text[i], 50)])

breadcrumbSelectors ==
    <<"[class*='breadcrumb'] li:last-child",
      "[class*='breadcrumb'] span:last-child", ".breadcrumb-item:last-child">>

extractFromBreadcrumb(doc) ==
    LET els == firstOfEach(doc, breadcrumbSelectors, 1)
        text == asTuple([i \in DOMAIN els |-> getCleanText(els[i])])
    IN  firstAccepted(text, [i \in DOMAIN els |-> genericAccepts(text[i], 50)])

headerSelectors ==
    <<"main h1", "[role='main'] h1", ".page-title", ".page-header h1">>

extractFromPageHeader(doc) ==
    LET els == firstOfEach(doc, headerSelectors, 1)
        text == asTuple([i \in DOMAIN els |-> getCleanText(els[i])])
    IN  firstAccepted(text, [i \in DOMAIN els |-> genericAccepts(text[i], 60)])

\* segment.replace(/([a-z])([A-Z])/g, '$1 $2')
RECURSIVE splitCamelFrom(_, _)
splitCamelFrom(s, i) ==
    IF i > Len(s) THEN <<>>
    ELSE IF i < Len(s) /\ s[i] \in Lower /\ s[i + 1] \in Upper
         THEN <<s[i], " ">> \o splitCamelFrom(s, i + 1)
         ELSE <<s[i]>> \o splitCamelFrom(s, i + 1)

capitalize(word) ==
    IF word = <<>> THEN <<>>
    ELSE <<toUpperCaseChar(word[1])>> \o toLowerCase(Tail(word))

RECURSIVE join(_, _, _)
join(words, sep, i) ==
    IF i > Len(words) THEN <<>>
    ELSE (IF i > 1 THEN sep ELSE <<>>) \o words[i] \o join(words, sep, i + 1)

formatPathSegment(segment) ==
    LET spaced == asTuple([i \in 1..Len(segment) |->
                      IF segment[i] \in {"-", "_"} THEN " " ELSE segment[i]])
        words == split(splitCamelFrom(spaced, 1), " ")
    IN  join(asTuple([i \in DOMAIN words |-> capitalize(words[i])]), <<" ">>, 1)

\* /^[0-9a-zA-Z-]{15,}$/i.test(segment)
looksLikeId(segment) ==
    /\ Len(segment) >= 15
    /\ \A i \in DOMAIN segment : segment[i] \in AlphaNum \cup {"-"}

extractFromUrlPath(loc) ==
    LET segments == SelectSeq(split(loc.pathname, "/"), LAMBDA s : s # <<>>)
        hits == {i \in DOMAIN segments :
                    /\ ~looksLikeId(segments[i])
                    /\ toLowerCase(segments[i]) \notin skipWords
                    /\ Len(formatPathSegment(segments[i])) > 3}
    IN  IF hits = {} THEN Null ELSE Str(formatPathSegment(segments[SetMax(hits)]))

---------------------------------------------------------------------------
(* Extraction Cascade *)

strategiesHeaderFirst ==
    <<"extractFromPageHeader", "extractFromGHLContactDetail",
      "extractFromGHLWorkflow", "extractFromGHLFormBuilder",
      "extractFromActiveNavItem", "extractFromBreadcrumb",
      "extractFromUrlPath">>

strategies ==
    <<"extractFromGHLContactDetail", "extractFromGHLWorkflow",
      "extractFromGHLFormBuilder", "extractFromActiveNavItem",
      "extractFromBreadcrumb", "extractFromPageHeader", "extractFromUrlPath">>

\* strategy()
callStrategy(name, loc, doc) ==
    CASE name = "extractFromGHLContactDetail" -> extractFromGHLContactDetail(loc, doc)
      [] name = "extractFromGHLWorkflow" -> extractFromGHLWorkflow(loc, doc)
      [] name = "extractFromGHLFormBuilder" -> extractFromGHLFormBuilder(loc, doc)
      [] name = "extractFromActiveNavItem" -> extractFromActiveNavItem(doc)
      [] name = "extractFromBreadcrumb" -> extractFromBreadcrumb(doc)
      [] name = "extractFromPageHeader" -> extractFromPageHeader(doc)
      [] name = "extractFromUrlPath" -> extractFromUrlPath(loc)

\* a catch block that gives up: the cascade ends with no context
catchAndReturn(name, rest) ==
    [context |-> Null, by |-> "none", raw |-> Null, called |-> <<name>>,
     threw |-> {name}]

\* catch (e) { console.log(...) }: the strategy counts as called, the loop
\* goes on with the strategies after it
catch(name, rest) ==
    [rest EXCEPT !.called = <<name>> \o @, !.threw = {name} \cup @]

\* the loop of extractPageContext from strategy i on: the context it returns,
\* the strategy that produced it, that strategy's own return value, and the
\* strategies that were called
RECURSIVE cascadeFrom(_, _, _)
cascadeFrom(loc, doc, i) ==
    IF i > Len(strategies)
    THEN [context |-> Null, by |-> "none", raw |-> Null, called |-> <<>>,
          threw |-> {}]
    ELSE IF strategies[i] \in throwing
    THEN catch(strategies[i], cascadeFrom(loc, doc, i + 1))
    ELSE LET step(context) ==
                 IF Truthy(context) /\ trim(context.text) # <<>>
                 THEN [context |-> Str(cleanContext(context.text)),
                       by |-> strategies[i], raw |-> context,
                       called |-> <<strategies[i]>>, threw |-> {}]
                 ELSE [cascadeFrom(loc, doc, i + 1)
                          EXCEPT !.called = <<strategies[i]>> \o @]
         IN  CHOOSE result \in
                 {step(context) : context \in {callStrategy(strategies[i], loc, doc)}} :
                 TRUE

extractPageContext(loc, doc) == cascadeFrom(loc, doc, 1)

---------------------------------------------------------------------------
(* Frames *)

\* A tab with a frame nested in the top frame and a frame nested in that one;
\* the dispatcher injects the script into all of them (allFrames: true).
Frames == {"top", "child", "grand"}
\* window.parent; the top frame is its own parent
parentOf(f) == CASE f = "top" -> "top" [] f = "child" -> "top" [] f = "grand" -> "child"
\* window.top
topOf(f) == "top"

skipHosts ==
    {<<"f", "i", "r", "e", "b", "a", "s", "e", "a", "p", "p", ".", "c", "o", "m">>,
     <<"g", "o", "o", "g", "l", "e", "a", "p", "i", "s", ".", "c", "o", "m">>,
     <<"g", "s", "t", "a", "t", "i", "c", ".", "c", "o", "m">>,
     <<"g", "o", "o", "g", "l", "e", ".", "c", "o", "m">>}

\* a check that skips only the listed names themselves
shouldSkipHostExact(f) == toLowerCase(location[f].hostname) \in skipHosts

\* host.includes(skip) for some skip of CONFIG.skipHosts
shouldSkipHost(f) ==
    \E skip \in skipHosts : includes(toLowerCase(location[f].hostname), skip)

\* frame f and its parent have different origins, so that reading
\* window.parent.location in f throws
crossOrigin(f) == location[f].hostname # location[parentOf(f)].hostname

isInIframeNever(f) == FALSE

\* window.self !== window.top; the catch branch answers true as well
isInIframe(f) == f # topOf(f)

\* the parent's path consulted before the referrer
getLocationIdParentFirst(f) ==
    LET own == matchLocation(location[f].pathname)
        ref == IF referrer[f] # <<>> THEN matchLocation(referrer[f]) ELSE Null
        par == IF parentOf(f) # f /\ ~crossOrigin(f)
               THEN matchLocation(location[parentOf(f)].pathname)
               ELSE Null
    IN  IF own.found THEN own
        ELSE IF par.found THEN par
        ELSE IF ref.found THEN ref
        ELSE Null

getLocationId(f) ==
    LET own == matchLocation(location[f].pathname)
        ref == IF referrer[f] # <<>> THEN matchLocation(referrer[f]) ELSE Null
        \* reading a cross-origin parent's location throws, and is caught
        par == IF parentOf(f) # f /\ ~crossOrigin(f)
               THEN matchLocation(location[parentOf(f)].pathname)
               ELSE Null
    IN  IF own.found THEN own
        ELSE IF ref.found THEN ref
        ELSE IF par.found THEN par
        ELSE Null

\* the value getBrandName returns: text is what it converts to in the title,
\* isString tells a brand string from an inherited function object
getBrandName(f) ==
    LET locationId == getLocationId(f)
    IN  IF Truthy(locationId) /\ PropertyGet(locationId.text).found
        THEN [text |-> PropertyGet(locationId.text).text,
              isString |-> PropertyGet(locationId.text).isString]
        ELSE [text |-> defaultBrandName, isString |-> TRUE]

---------------------------------------------------------------------------
(* Title Composer *)

composeBrandFirst(context, brandText) == brandText \o titleSeparator \o context

\* `${context}${CONFIG.titleSeparator}${brandName}`
compose(context, brandText) == context \o titleSeparator \o brandText

NoMessage ==
    [type |-> "none", from |-> "none", title |-> <<>>, context |-> <<>>,
     brandName |-> <<>>]

Idle ==
    [op |-> "none", frame |-> "none", context |-> Null, brand |-> <<>>,
     by |-> "none", raw |-> Null, called |-> <<>>, threw |-> {},
     before |-> <<>>,
     wrote |-> FALSE, posted |-> FALSE, msg |-> NoMessage,
     repeat |-> FALSE, prevWrote |-> FALSE, prevBefore |-> <<>>]

inFlight == Len(msgs["top"]) + Len(msgs["child"]) + Len(msgs["grand"])

titleGateOff(current, newTitle) == TRUE

\* document.title !== newTitle
titleGate(current, newTitle) == current # newTitle

\* updateTitle() in frame f
updateTitle(f) ==
    \E r \in {extractPageContext(location[f], dom[f])},
       brandName \in {getBrandName(f)} :
      LET newTitle == compose(r.context.text, brandName.text)
          \* a function object cannot be cloned: postMessage throws, caught
          posts == Truthy(r.context) /\ isInIframe(f) /\ brandName.isString
          writes == /\ Truthy(r.context)
                    /\ ~isInIframe(f)
                    /\ titleGate(title[f], newTitle)
          message == [type |-> "GHL_TAB_TITLE_UPDATE", from |-> f,
                      title |-> newTitle, context |-> r.context.text,
                      brandName |-> brandName.text]
      IN  /\ title' = IF writes THEN [title EXCEPT ![f] = newTitle] ELSE title
          /\ assigned' = IF writes THEN assigned \cup {f} ELSE assigned
          /\ msgs' = IF posts
                     THEN [msgs EXCEPT ![parentOf(f)] = Append(@, message)]
                     ELSE msgs
          /\ last' = [op |-> "updateTitle", frame |-> f, context |-> r.context,
                      brand |-> brandName.text, by |-> r.by, raw |-> r.raw,
                      called |-> r.called, threw |-> r.threw,
                      before |-> title[f],
                      wrote |-> writes, posted |-> posts,
                      msg |-> IF posts THEN message ELSE NoMessage,
                      repeat |-> last.op = "updateTitle" /\ last.frame = f,
                      prevWrote |-> /\ last.op = "updateTitle"
                                    /\ last.frame = f
                                    /\ last.wrote,
                      prevBefore |-> IF last.op = "updateTitle" /\ last.frame = f
                                     THEN last.before ELSE <<>>]

listenerUsesContext(data) == data.context

\* const newTitle = event.data.title
listenerTitle(data) == data.title

\* a listener that looks at the sender as well
acceptsFromFrames(data) ==
    data.type = "GHL_TAB_TITLE_UPDATE" /\ data.from \in Frames

\* event.data && event.data.type === 'GHL_TAB_TITLE_UPDATE'
accepts(data) == data.type = "GHL_TAB_TITLE_UPDATE"

\* the 'message' listener of frame f, run on the oldest message posted to f;
\* a frame without the listener ignores the message
\* a listener that leaves the title to the frame's own context when the
\* frame has one
onMessageUnlessOwnContext(f) ==
    LET data == Head(msgs[f])
        newTitle == listenerTitle(data)
        writes == /\ listening[f]
                  /\ accepts(data)
                  /\ newTitle # <<>>
                  /\ title[f] # newTitle
                  /\ ~Truthy(extractPageContext(location[f], dom[f]).context)
    IN  /\ msgs' = [msgs EXCEPT ![f] = Tail(@)]
        /\ title' = IF writes THEN [title EXCEPT ![f] = newTitle] ELSE title
        /\ assigned' = IF writes THEN assigned \cup {f} ELSE assigned
        /\ last' = [Idle EXCEPT !.op = "message", !.frame = f, !.msg = data,
                                !.before = title[f], !.wrote = writes]

onMessage(f) ==
    LET data == Head(msgs[f])
        newTitle == listenerTitle(data)
        writes == /\ listening[f]
                  /\ accepts(data)
                  /\ newTitle # <<>>
                  /\ title[f] # newTitle
    IN  /\ msgs' = [msgs EXCEPT ![f] = Tail(@)]
        /\ title' = IF writes THEN [title EXCEPT ![f] = newTitle] ELSE title
        /\ assigned' = IF writes THEN assigned \cup {f} ELSE assigned
        /\ last' = [Idle EXCEPT !.op = "message", !.frame = f, !.msg = data,
                                !.before = title[f], !.wrote = writes]

---------------------------------------------------------------------------
(* The script in one frame: guard, skip-host check, listener, init() *)

\* an execution without the guard of line 10: init() runs every time
runScriptNoGuard(f) ==
    IF shouldSkipHost(f)
    THEN [injected |-> TRUE, listening |-> listening[f], ready |-> ready[f],
          inits |-> inits[f]]
    ELSE [injected |-> TRUE, listening |-> ~isInIframe(f), ready |-> TRUE,
          inits |-> IF inits[f] < 2 THEN inits[f] + 1 ELSE 2]

\* what one execution of the first revision leaves in frame f: the guard
\* flag, the listener (top frame only) and init(); executions that reach
\* init() are counted up to 2
runScript(f) ==
    IF injected[f]
    THEN [injected |-> TRUE, listening |-> listening[f], ready |-> ready[f],
          inits |-> inits[f]]
    ELSE IF shouldSkipHost(f)
    THEN [injected |-> TRUE, listening |-> listening[f], ready |-> ready[f],
          inits |-> inits[f]]
    ELSE [injected |-> TRUE, listening |-> ~isInIframe(f), ready |-> TRUE,
          inits |-> IF inits[f] < 2 THEN inits[f] + 1 ELSE 2]

\* the second revision in the same file runs on what the first left: its
\* guard reads the same flag
secondRevision(r) ==
    IF r.injected
    THEN r
    ELSE [injected |-> TRUE, listening |-> TRUE, ready |-> TRUE,
          inits |-> IF r.inits < 2 THEN r.inits + 1 ELSE 2]

\* one execution of content.js in frame f: both revisions, in file order
contentJs(f) == secondRevision(runScript(f))

---------------------------------------------------------------------------
(* The pages the model is run on *)

Element(sels, text) == [sels |-> sels, parts |-> <<[text |-> text, noise |-> FALSE]>>]

\* a 101-character heading, "aaaaaaa aaaaaaa ..."
LongName == asTuple([i \in 1..101 |-> IF i % 8 = 0 THEN " " ELSE "a"])
\* a contact name of exactly 100 characters
Name100 == asTuple([i \in 1..100 |-> IF i % 10 = 0 /\ i < 100 THEN " " ELSE "b"])

DocEmpty == <<>>
\* a contact name and a page heading
DocContact ==
    <<Element({"p.hr-text-semibold span.hr-ellipsis"}, StrCrystalRaw),
      Element({"main h1", "h1"}, StrContacts)>>
\* the first contact selector finds a one-character text, the second a name
DocContactShort ==
    <<Element({"p.hr-text-semibold span.hr-ellipsis"}, StrSeven),
      Element({"#hr-ellipsis-id"}, StrCrystalJohnson)>>
DocContact100 ==
    <<Element({"#hr-ellipsis-id"}, Name100),
      Element({".page-title"}, StrSettings)>>
\* a contact-name element that shows an opaque identifier
DocContactId ==
    <<Element({"#hr-ellipsis-id"}, StrOpaqueId),
      Element({".page-title"}, StrSettings)>>
DocWorkflow ==
    <<Element({"#cmp-header__txt--edit-workflow-name", "h1.editable-header-text",
               ".editable-header-text", "h1"}, StrMyWorkflow)>>
DocWorkflowLong ==
    <<Element({"h1"}, StrDigits), Element({"h1.editable-header-text",
               ".editable-header-text", "h1"}, LongName)>>
\* an active navigation item with an icon, and a page title
DocNav ==
    <<[sels |-> {".nav-link.active"},
       parts |-> <<[text |-> StrNewBadge, noise |-> TRUE],
                   [text |-> StrDashboard, noise |-> FALSE]>>],
      Element({".page-title"}, StrSettings)>>
\* a heading that is an opaque identifier, and a breadcrumb
DocHeaderId ==
    <<Element({"main h1", "h1"}, StrOpaqueId),
      Element({".breadcrumb-item:last-child"}, StrSettings)>>
DocForm ==
    <<Element({"div[contenteditable='true'].truncate",
               "div.truncate[contenteditable='true']",
               "div[contenteditable='true']"}, StrLeadForm)>>

AllDocs ==
    {DocEmpty, DocContact, DocContactShort, DocContact100, DocContactId,
     DocWorkflow, DocWorkflowLong, DocNav, DocHeaderId, DocForm,
     \* a heading of 100 characters whose 60th is a space
     <<Element({"h1"}, Name100)>>}
AllPaths ==
    {PathCustomReport, PathContactFed, PathContactPro, PathCtorDash,
     PathReports, PathCamel, PathWorkflowTop, PathFrameForm, PathRoot,
     PathFrameWorkflow}
AllLocations ==
    {[hostname |-> HostApp, pathname |-> p, hash |-> h] :
        p \in AllPaths, h \in {HashNone, HashWorkflow}}

\* the pages of the three-frame runs
TopLocations ==
    {[hostname |-> HostApp, pathname |-> p, hash |-> HashNone] :
        p \in {PathContactPro, PathReports, PathRoot}}
ChildLocation == [hostname |-> HostFrame, pathname |-> PathFrameWorkflow, hash |-> HashNone]
GrandLocation == [hostname |-> HostFrame, pathname |-> PathFrameForm, hash |-> HashNone]
DocsOf(f) ==
    CASE f = "top" -> {DocContact, DocEmpty}
      [] f = "child" -> {DocWorkflow, DocEmpty}
      [] f = "grand" -> {DocForm, DocEmpty}

\* at most this many posted messages wait for delivery
MaxInFlight == 2

---------------------------------------------------------------------------
(* Operations *)

\* injectContentScript: the script runs once more in every frame of the tab
InjectContentScript ==
    /\ injected' = [f \in Frames |-> contentJs(f).injected]
    /\ inits' = [f \in Frames |-> contentJs(f).inits]
    /\ listening' = [f \in Frames |-> contentJs(f).listening]
    /\ ready' = [f \in Frames |-> contentJs(f).ready]
    /\ last' = [Idle EXCEPT !.op = "inject"]
    /\ UNCHANGED <<location, dom, title, referrer, throwing, msgs, assigned>>
    /\ UNCHANGED schedVars
    /\ UNCHANGED dispatchVars

\* a timer or observer of frame f calls updateTitle
Cycle(f) ==
    /\ ready[f]
    /\ isInIframe(f) => inFlight < MaxInFlight
    /\ updateTitle(f)
    /\ UNCHANGED <<location, dom, referrer, throwing, injected, inits, ready,
                   listening>>
    /\ UNCHANGED schedVars
    /\ UNCHANGED dispatchVars

\* the 'message' event of the oldest message posted to frame f
Deliver(f) ==
    /\ msgs[f] # <<>>
    /\ onMessage(f)
    /\ UNCHANGED <<location, dom, referrer, throwing, injected, inits, ready,
                   listening>>
    /\ UNCHANGED schedVars
    /\ UNCHANGED dispatchVars

\* the application re-renders frame f
PageMutates(f) ==
    /\ \E d \in DocsOf(f) : d # dom[f] /\ dom' = [dom EXCEPT ![f] = d]
    /\ last' = [Idle EXCEPT !.op = "mutation", !.frame = f]
    /\ UNCHANGED <<location, title, referrer, throwing, injected, inits, ready,
                   listening, msgs,
                   assigned>>
    /\ UNCHANGED schedVars
    /\ UNCHANGED dispatchVars

\* the application navigates the top frame (history.pushState)
Navigate ==
    /\ \E l \in TopLocations :
          l # location["top"] /\ location' = [location EXCEPT !["top"] = l]
    /\ last' = [Idle EXCEPT !.op = "navigation", !.frame = "top"]
    /\ UNCHANGED <<dom, title, referrer, throwing, injected, inits, ready,
                   listening, msgs,
                   assigned>>
    /\ UNCHANGED schedVars
    /\ UNCHANGED dispatchVars

\* nothing is stored under 'settings'
NoSettings == [stored |-> FALSE, enabled |-> FALSE, domains |-> <<>>]
\* tab.url is undefined
NoUrl == [kind |-> "missing", hostname |-> <<>>]
\* the dispatcher has decided nothing yet
DEFAULT_SETTINGS == [stored |-> TRUE, enabled |-> TRUE, domains |-> <<>>]

\* the popup as it opens: DEFAULT_SETTINGS untouched, no operation started
NoPopup == [defaults |-> DEFAULT_SETTINGS, ops |-> <<>>, done |-> <<>>]

NoDispatch ==
    [op |-> "none", injects |-> FALSE, enabled |-> FALSE, domains |-> <<>>,
     url |-> NoUrl, atEvent |-> NoSettings, atDecision |-> NoUrl]

\* no burst of mutation callbacks is being followed
NoBurst == [n |-> 0, runs |-> 0, elapsed |-> 0, waited |-> TRUE]

InitCommon ==
    /\ title = [f \in Frames |-> StrInitialTitle]
    /\ injected = [f \in Frames |-> FALSE]
    /\ inits = [f \in Frames |-> 0]
    /\ ready = [f \in Frames |-> FALSE]
    /\ listening = [f \in Frames |-> FALSE]
    /\ msgs = [f \in Frames |-> <<>>]
    /\ assigned = {}
    /\ last = Idle
    /\ timers = <<>>
    /\ lastUrl = Null
    /\ burst = NoBurst
    /\ events = 0
    /\ driven = 0
    /\ settings = NoSettings
    /\ tab = NoUrl
    /\ handlers = <<>>
    /\ dispatch = NoDispatch
    /\ popup = NoPopup

Init ==
    /\ InitCommon
    /\ body = TRUE
    /\ \E l \in TopLocations :
          location = [f \in Frames |->
              CASE f = "top" -> l [] f = "child" -> ChildLocation
                [] f = "grand" -> GrandLocation]
    /\ dom \in [Frames -> AllDocs]
    /\ \A f \in Frames : dom[f] \in DocsOf(f)
    /\ \E r \in {RefNone, RefApp} :
          referrer = [f \in Frames |-> IF f = "child" THEN r ELSE RefNone]
    /\ throwing = {}

Next ==
    \/ InjectContentScript
    \/ \E f \in Frames : Cycle(f)
    \/ \E f \in Frames : Deliver(f)
    \/ \E f \in Frames : PageMutates(f)
    \/ Navigate

Spec == Init /\ [][Next]_vars

\* One frame on every page of the catalogue: the extraction cascade, the
\* brand resolver and the title composer as functions of the page.
InitExtract ==
    /\ InitCommon
    /\ body = TRUE
    /\ \E l \in AllLocations :
          location = [f \in Frames |->
              CASE f = "top" -> l [] f = "child" -> ChildLocation
                [] f = "grand" -> GrandLocation]
    /\ \E d \in AllDocs : dom = [f \in Frames |-> IF f = "top" THEN d ELSE DocEmpty]
    /\ referrer = [f \in Frames |-> RefNone]
    /\ throwing = {}

NextExtract ==
    \/ InjectContentScript
    \/ Cycle("top")

SpecExtract == InitExtract /\ [][NextExtract]_vars

\* Relaying: the top frame, the frame nested in it, and other windows that
\* post to the top frame (any window holding a reference to it can): title
\* updates, and messages of a type the listener does not know.
ForeignMessages ==
    {[type |-> t, from |-> "other", title |-> x, context |-> <<>>,
      brandName |-> <<>>] :
        t \in {"GHL_TAB_TITLE_UPDATE", "REQUEST_BRAND"}, x \in {StrSettings, <<>>}}
    \ {[type |-> "REQUEST_BRAND", from |-> "other", title |-> <<>>, context |-> <<>>,
        brandName |-> <<>>]}

\* some other window calls postMessage on the top frame
PostForeign ==
    /\ inFlight < MaxInFlight
    /\ \E m \in ForeignMessages :
          msgs' = [msgs EXCEPT !["top"] = Append(@, m)]
    /\ last' = [Idle EXCEPT !.op = "post", !.frame = "other"]
    /\ UNCHANGED <<location, dom, title, referrer, throwing, injected, inits,
                   ready, listening, assigned>>
    /\ UNCHANGED schedVars
    /\ UNCHANGED dispatchVars

NextRelay ==
    \/ InjectContentScript
    \/ Cycle("top")
    \/ Cycle("child")
    \/ Deliver("top")
    \/ PageMutates("child")
    \/ PostForeign

InitRelay ==
    /\ InitCommon
    /\ body = TRUE
    /\ location = [f \in Frames |->
                      CASE f = "top" -> [hostname |-> HostApp,
                                         pathname |-> PathContactPro,
                                         hash |-> HashNone]
                        [] f = "child" -> ChildLocation
                        [] f = "grand" -> GrandLocation]
    /\ \E d \in DocsOf("child") :
          dom = [f \in Frames |->
                    CASE f = "top" -> DocContact [] f = "child" -> d
                      [] f = "grand" -> DocEmpty]
    /\ referrer = [f \in Frames |-> RefNone]
    /\ throwing = {}

SpecRelay == InitRelay /\ [][NextRelay]_vars

\* A nested frame whose own path, referrer and parent path name a location
\* or none, in a parent of the same or of another origin.
InitBrand ==
    /\ InitCommon
    /\ body = TRUE
    /\ \E tp \in {PathContactFed, PathContactPro, PathRoot},
          ch \in {HostApp, HostFrame},
          cp \in {PathFrameWorkflow, PathContactPro} :
          location = [f \in Frames |->
              CASE f = "top" -> [hostname |-> HostApp, pathname |-> tp,
                                 hash |-> HashNone]
                [] f = "child" -> [hostname |-> ch, pathname |-> cp,
                                   hash |-> HashNone]
                [] f = "grand" -> GrandLocation]
    /\ dom = [f \in Frames |-> IF f = "child" THEN DocWorkflow ELSE DocEmpty]
    /\ \E r \in {RefNone, RefApp} :
          referrer = [f \in Frames |-> IF f = "child" THEN r ELSE RefNone]
    /\ throwing = {}

NextBrand ==
    \/ InjectContentScript
    \/ Cycle("child")
    \/ Cycle("top")
    \/ Deliver("top")

SpecBrand == InitBrand /\ [][NextBrand]_vars

\* The same catalogue on pages where some strategies throw when called.
ThrowChoices ==
    {{"extractFromGHLContactDetail"},
     {"extractFromGHLWorkflow", "extractFromPageHeader"},
     {"extractFromActiveNavItem"},
     {"extractFromUrlPath"}}

InitThrow ==
    /\ InitCommon
    /\ body = TRUE
    /\ \E l \in AllLocations :
          location = [f \in Frames |->
              CASE f = "top" -> l [] f = "child" -> ChildLocation
                [] f = "grand" -> GrandLocation]
    /\ \E d \in AllDocs : dom = [f \in Frames |-> IF f = "top" THEN d ELSE DocEmpty]
    /\ referrer = [f \in Frames |-> RefNone]
    /\ throwing \in ThrowChoices

SpecThrow == InitThrow /\ [][NextExtract]_vars

---------------------------------------------------------------------------
(* Change Detector / Scheduler of the top frame *)

\* at most this many timers are pending (the script never has more than 7)
MaxTimers == 8
\* the callbacks of a burst are counted up to this number
MaxBurst == 2
\* the page and the user do at most this many things (mutations,
\* navigations) in one run
MaxEvents == 3
\* calls of the dispatcher's handlers that wait at an await at the same time
MaxHandlers == 2

Timer(kind, ms) == [kind |-> kind, due |-> ms]
without(ts, kind) == SelectSeq(ts, LAMBDA t : t.kind # kind)
removeAt(ts, i) == SubSeq(ts, 1, i - 1) \o SubSeq(ts, i + 1, Len(ts))
pending(kind) == \E i \in DOMAIN timers : timers[i].kind = kind
\* the timer that runs next: of the expired timers, the one set first
isNext(i) ==
    /\ timers[i].due = 0
    /\ \A j \in 1..(i - 1) : timers[j].due # 0

debounceNoClear(ts, kind, ms) == Append(ts, Timer(kind, ms))

\* one timeout handle for the whole script: a debounced call also clears
\* the timers of init()
debounceClearsInit(ts, kind, ms) ==
    Append(without(without(ts, kind), "init"), Timer(kind, ms))

\* one call of a function made by debounce(fn, ms): clearTimeout(timeout),
\* then timeout = setTimeout(..., ms)
debounce(ts, kind, ms) == Append(without(ts, kind), Timer(kind, ms))

\* every caller of debouncedUpdate with a timer of its own
debouncedUpdateOwnTimer(ts) == debounceNoClear(ts, "update", updateDebounceMs)

\* debouncedUpdate()
debouncedUpdate(ts) == debounce(ts, "update", updateDebounceMs)

\* the five setTimeout(updateTitle, ...) of init()
initialTimers ==
    <<Timer("init", 500), Timer("init", 1500), Timer("init", 3000),
      Timer("init", 5000), Timer("init", 8000)>>

\* Bookkeeping of a burst of callbacks of the body observer, followed from
\* a callback that finds no debounce timer pending for as long as every
\* further callback finds the observer-level timer pending and no other
\* source calls debouncedUpdate: n callbacks so far, runs debounce-driven
\* calls of updateTitle, elapsed milliseconds since the last callback,
\* waited: the run came after both debounce delays.
burstCallback ==
    IF ~pending("observer") /\ ~pending("update")
    THEN [NoBurst EXCEPT !.n = 1]
    ELSE IF burst.n > 0 /\ pending("observer")
    THEN [burst EXCEPT !.n = IF @ < MaxBurst THEN @ + 1 ELSE @, !.elapsed = 0]
    ELSE NoBurst
burstElapsed(d) ==
    IF burst.n > 0 /\ burst.runs = 0
    THEN [burst EXCEPT !.elapsed =
             IF @ + d > observerDebounceMs + updateDebounceMs
             THEN observerDebounceMs + updateDebounceMs ELSE @ + d]
    ELSE burst
burstRun ==
    IF burst.n > 0
    THEN [burst EXCEPT !.runs = IF @ < 2 THEN @ + 1 ELSE @,
                       !.waited = @ /\ burst.elapsed >=
                                       observerDebounceMs + updateDebounceMs,
                       !.elapsed = 0]
    ELSE burst

\* a URL observer that takes every mutation for a URL change
urlChangedAlways == lastUrl.found

\* the URL observer's test: location.href !== lastUrl
urlChanged == lastUrl.found /\ href(location["top"]) # lastUrl.text

\* a title write that the body observer sees as well
titleMutationInBody(ts) ==
    /\ timers' = IF last'.wrote /\ lastUrl.found
                  THEN debounce(ts, "observer", observerDebounceMs) ELSE ts
    /\ UNCHANGED lastUrl

\* updateTitle() has run in the top frame with ts the timers it left. An
\* assignment to document.title replaces the children of the title element,
\* a childList mutation below document.documentElement: the callback of
\* the URL observer runs (the body observer does not see the head).
titleMutation(ts) ==
    IF last'.wrote /\ urlChanged
    THEN /\ timers' = debouncedUpdate(ts)
         /\ lastUrl' = Str(href(location["top"]))
    ELSE /\ timers' = ts
         /\ UNCHANGED lastUrl

\* the script is injected while the page loads: the guard, the listener,
\* init() with its timers and, when document.body exists, setupObserver()
Load ==
    /\ injected' = [f \in Frames |-> contentJs(f).injected]
    /\ inits' = [f \in Frames |-> contentJs(f).inits]
    /\ listening' = [f \in Frames |-> contentJs(f).listening]
    /\ ready' = [f \in Frames |-> contentJs(f).ready]
    /\ last' = [Idle EXCEPT !.op = "inject"]
    /\ IF contentJs("top").inits > inits["top"]
       THEN /\ timers' = timers \o initialTimers
            /\ lastUrl' = IF body THEN Str(href(location["top"])) ELSE Null
       ELSE UNCHANGED <<timers, lastUrl>>
    /\ UNCHANGED <<location, dom, title, referrer, throwing, msgs, assigned, body, burst,
                   events, driven>>
    /\ UNCHANGED dispatchVars

\* DOMContentLoaded: document.body exists from now on; the listener init()
\* registered when it did not runs setupObserver() and updateTitle()
DOMContentLoaded ==
    /\ ~body
    /\ body' = TRUE
    /\ IF ready["top"] /\ ~lastUrl.found
       THEN /\ lastUrl' = Str(href(location["top"]))
            /\ updateTitle("top")
       ELSE UNCHANGED <<lastUrl, title, assigned, msgs, last>>
    /\ UNCHANGED <<location, dom, referrer, throwing, injected, inits, ready,
                   listening, timers,
                   burst, events, driven>>
    /\ UNCHANGED dispatchVars

\* one more cycle run by the update-level debounce since the last trigger
MaxDriven == 3
drivenRun == IF driven < MaxDriven THEN driven + 1 ELSE driven

\* time passes until the next timer expires
Advance ==
    /\ timers # <<>>
    /\ \A i \in DOMAIN timers : timers[i].due > 0
    /\ \E d \in {SetMin({timers[i].due : i \in DOMAIN timers})} :
          /\ timers' = [i \in DOMAIN timers |-> [timers[i] EXCEPT !.due = @ - d]]
          /\ burst' = burstElapsed(d)
    /\ UNCHANGED frameVars
    /\ UNCHANGED <<body, lastUrl, events, driven>>
    /\ UNCHANGED dispatchVars

\* one of init()'s timers expires: updateTitle()
FireInitial ==
    /\ \E i \in DOMAIN timers :
          /\ timers[i].kind = "init"
          /\ isNext(i)
          /\ updateTitle("top")
          /\ titleMutation(removeAt(timers, i))
    /\ burst' = IF last'.wrote /\ urlChanged THEN NoBurst ELSE burst
    /\ driven' = IF last'.wrote /\ urlChanged THEN 0 ELSE driven
    /\ UNCHANGED <<location, dom, referrer, throwing, injected, inits, ready,
                   listening>>
    /\ UNCHANGED <<body, events>>
    /\ UNCHANGED dispatchVars

\* the observer-level debounce expires: debouncedUpdate()
FireObserverDebounce ==
    /\ \E i \in DOMAIN timers :
          /\ timers[i].kind = "observer"
          /\ isNext(i)
          /\ timers' = debouncedUpdate(removeAt(timers, i))
    /\ UNCHANGED frameVars
    /\ UNCHANGED <<body, lastUrl, burst, events, driven>>
    /\ UNCHANGED dispatchVars

\* the update-level debounce expires: updateTitle()
FireUpdateDebounce ==
    /\ \E i \in DOMAIN timers :
          /\ timers[i].kind = "update"
          /\ isNext(i)
          /\ updateTitle("top")
          /\ titleMutation(removeAt(timers, i))
    /\ burst' = IF last'.wrote /\ urlChanged THEN NoBurst ELSE burstRun
    /\ driven' = IF last'.wrote /\ urlChanged THEN 0 ELSE drivenRun
    /\ UNCHANGED <<location, dom, referrer, throwing, injected, inits, ready,
                   listening>>
    /\ UNCHANGED <<body, events>>
    /\ UNCHANGED dispatchVars

SchedDocs == {DocContact, DocEmpty}

\* the application changes the children of an element of the body: the
\* callbacks of the body observer and of the URL observer run
Mutation ==
    /\ events < MaxEvents
    /\ events' = events + 1
    /\ driven' = IF lastUrl.found THEN 0 ELSE driven
    /\ body
    /\ Len(timers) < MaxTimers
    /\ \E d \in SchedDocs : d # dom["top"] /\ dom' = [dom EXCEPT !["top"] = d]
    /\ last' = [Idle EXCEPT !.op = "mutation", !.frame = "top"]
    /\ IF lastUrl.found
       THEN \E changed \in {urlChanged} :
              /\ timers' = IF changed
                            THEN debouncedUpdate(
                                     debounce(timers, "observer", observerDebounceMs))
                            ELSE debounce(timers, "observer", observerDebounceMs)
              /\ lastUrl' = Str(href(location["top"]))
              /\ burst' = IF changed THEN NoBurst ELSE burstCallback
       ELSE UNCHANGED <<timers, lastUrl, burst>>
    /\ UNCHANGED <<location, title, referrer, throwing, injected, inits, ready,
                   listening, msgs,
                   assigned, body>>
    /\ UNCHANGED dispatchVars

\* the application changes a watched attribute (class, aria-current, ...):
\* only the body observer sees it
AttributeMutation ==
    /\ events < MaxEvents
    /\ events' = events + 1
    /\ driven' = IF lastUrl.found THEN 0 ELSE driven
    /\ body
    /\ Len(timers) < MaxTimers
    /\ lastUrl.found
    /\ timers' = debounce(timers, "observer", observerDebounceMs)
    /\ burst' = burstCallback
    /\ last' = [Idle EXCEPT !.op = "mutation", !.frame = "top"]
    /\ UNCHANGED <<location, dom, title, referrer, throwing, injected, inits, ready,
                   listening,
                   msgs, assigned, body, lastUrl>>
    /\ UNCHANGED dispatchVars

SchedLocations ==
    {[hostname |-> HostApp, pathname |-> p, hash |-> h] :
        p \in {PathContactPro, PathReports}, h \in {HashNone}}

\* history.pushState: the URL changes and no event is fired
PushState ==
    /\ events < MaxEvents
    /\ events' = events + 1
    /\ UNCHANGED driven
    /\ \E l \in SchedLocations :
          /\ l.pathname # location["top"].pathname
          /\ location' = [location EXCEPT !["top"] = l]
    /\ last' = [Idle EXCEPT !.op = "navigation", !.frame = "top"]
    /\ UNCHANGED <<dom, title, referrer, throwing, injected, inits, ready,
                   listening, msgs,
                   assigned>>
    /\ UNCHANGED <<body, timers, lastUrl, burst>>
    /\ UNCHANGED dispatchVars

\* the user goes back or forward: the URL changes and 'popstate' is fired
PopState ==
    /\ events < MaxEvents
    /\ events' = events + 1
    /\ driven' = IF lastUrl.found THEN 0 ELSE driven
    /\ Len(timers) < MaxTimers
    /\ \E l \in SchedLocations :
          /\ l.pathname # location["top"].pathname
          /\ location' = [location EXCEPT !["top"] = l]
    /\ last' = [Idle EXCEPT !.op = "navigation", !.frame = "top"]
    /\ IF lastUrl.found
       THEN /\ timers' = debouncedUpdate(timers)
            /\ burst' = NoBurst
       ELSE UNCHANGED <<timers, burst>>
    /\ UNCHANGED <<dom, title, referrer, throwing, injected, inits, ready,
                   listening, msgs,
                   assigned, body, lastUrl>>
    /\ UNCHANGED dispatchVars

\* the fragment changes: 'hashchange' is fired
HashChange ==
    /\ events < MaxEvents
    /\ events' = events + 1
    /\ driven' = IF lastUrl.found THEN 0 ELSE driven
    /\ Len(timers) < MaxTimers
    /\ \E h \in {HashNone, HashWorkflow} :
          /\ h # location["top"].hash
          /\ location' = [location EXCEPT !["top"].hash = h]
    /\ last' = [Idle EXCEPT !.op = "navigation", !.frame = "top"]
    /\ IF lastUrl.found
       THEN /\ timers' = debouncedUpdate(timers)
            /\ burst' = NoBurst
       ELSE UNCHANGED <<timers, burst>>
    /\ UNCHANGED <<dom, title, referrer, throwing, injected, inits, ready,
                   listening, msgs,
                   assigned, body, lastUrl>>
    /\ UNCHANGED dispatchVars

InitSched ==
    /\ InitCommon
    /\ body \in BOOLEAN
    /\ location = [f \in Frames |->
                      CASE f = "top" -> [hostname |-> HostApp,
                                         pathname |-> PathContactPro,
                                         hash |-> HashNone]
                        [] f = "child" -> ChildLocation
                        [] f = "grand" -> GrandLocation]
    /\ dom = [f \in Frames |-> DocEmpty]
    /\ referrer = [f \in Frames |-> RefNone]
    /\ throwing = {}

NextSched ==
    \/ Load
    \/ DOMContentLoaded
    \/ Advance
    \/ FireInitial
    \/ FireObserverDebounce
    \/ FireUpdateDebounce
    \/ Mutation
    \/ AttributeMutation
    \/ PushState
    \/ PopState
    \/ HashChange

SpecSched == InitSched /\ [][NextSched]_vars

\* the expired timer whose turn it is runs: FireInitial, FireUpdateDebounce
\* or FireObserverDebounce, as far as the timers go
TimerRuns ==
    \E i \in DOMAIN timers :
        /\ isNext(i)
        /\ \/ timers' = debouncedUpdate(removeAt(timers, i))
           \/ timers[i].kind # "observer" /\ timers' = removeAt(timers, i)

\* The event loop: time passes and an expired timer gets its turn.
SpecSchedFair == SpecSched /\ WF_vars(Advance) /\ WF_timers(TimerRuns)

---------------------------------------------------------------------------
(* The injection dispatcher (background service worker) and the popup that
   writes its settings *)

\* "gohighlevel.com"
DomainGhl ==
    <<"g", "o", "h", "i", "g", "h", "l", "e", "v", "e", "l", ".", "c", "o",
      "m">>

\* the values tab.url takes: undefined, a string new URL() rejects, and URLs
\* whose hostname is the domain, a subdomain of it, and a name that merely
\* ends with it ("notgohighlevel.com")
TabUrls ==
    {NoUrl, [kind |-> "unparsable", hostname |-> <<>>]}
    \cup {[kind |-> "url", hostname |-> h] :
            h \in {DomainGhl, HostApp, <<"n", "o", "t">> \o DomainGhl}}

\* result.settings || DEFAULT_SETTINGS
getSettings(storage) == IF storage.stored THEN storage ELSE DEFAULT_SETTINGS

endsWith(s, suffix) ==
    /\ Len(suffix) <= Len(s)
    /\ SubSeq(s, Len(s) - Len(suffix) + 1, Len(s)) = suffix

\* a matcher that accepts every hostname containing the domain
matchesDomainContains(url, domains) ==
    /\ url.kind = "url"
    /\ \E i \in 1..Len(domains) :
          includes(toLowerCase(url.hostname), trim(toLowerCase(domains[i])))

\* new URL(url) throws on a string that is no URL, and the catch returns false
matchesDomain(url, domains) ==
    /\ url.kind = "url"
    /\ \E i \in 1..Len(domains) :
          \E normalizedDomain \in {trim(toLowerCase(domains[i]))} :
              \/ toLowerCase(url.hostname) = normalizedDomain
              \/ endsWith(toLowerCase(url.hostname), <<".">> \o normalizedDomain)

\* chrome.scripting.executeScript with allFrames: the script runs in every
\* frame of the tab's document
injectContentScript ==
    /\ injected' = [f \in Frames |-> contentJs(f).injected]
    /\ inits' = [f \in Frames |-> contentJs(f).inits]
    /\ listening' = [f \in Frames |-> contentJs(f).listening]
    /\ ready' = [f \in Frames |-> contentJs(f).ready]

\* the dispatcher's decision: inject, or leave the tab alone
decide(op, injects, s, url, h) ==
    /\ dispatch' = [op |-> op, injects |-> injects, enabled |-> s.enabled,
                    domains |-> s.domains, url |-> url, atEvent |-> h.atEvent,
                    atDecision |-> tab]
    /\ IF injects THEN injectContentScript
                  ELSE UNCHANGED <<injected, inits, listening, ready>>

\* chrome.tabs.onUpdated fires: handleTabUpdate runs up to its await. The
\* event carries the tab as it is now; changeInfo.url is set when the URL
\* has changed.
TabUpdated ==
    /\ Len(handlers) < MaxHandlers
    /\ \E u \in TabUrls, status \in {"loading", "complete"} :
          /\ tab' = u
          /\ IF status # "complete" /\ (u = tab \/ u.kind = "missing")
               THEN UNCHANGED handlers
               ELSE handlers' = Append(handlers,
                        [kind |-> "handleTabUpdate", url |-> u,
                         newValue |-> NoSettings, atEvent |-> settings])
    /\ UNCHANGED <<settings, dispatch, popup>>
    /\ UNCHANGED frameVars
    /\ UNCHANGED schedVars

\* the popup (or the install handler) writes the settings, and
\* chrome.storage.onChanged fires: the listener runs up to its await
saveSettings(s) ==
    /\ Len(handlers) < MaxHandlers
    /\ s # settings
    /\ settings' = s
    /\ handlers' = Append(handlers,
          [kind |-> "onChanged", url |-> NoUrl, newValue |-> s,
           atEvent |-> settings])
    /\ UNCHANGED <<tab, dispatch>>
    /\ UNCHANGED frameVars
    /\ UNCHANGED schedVars

\* chrome.runtime.onInstalled with reason 'install'
Installed ==
    /\ ~settings.stored
    /\ saveSettings(DEFAULT_SETTINGS)
    /\ UNCHANGED popup

\* addDomain, removeDomain and toggleEnabled of the popup: the domain the
\* popup stores is trimmed, lower-cased and valid
PopupSaves ==
    /\ \E enabled \in BOOLEAN, domains \in {<<>>, <<DomainGhl>>} :
          saveSettings([stored |-> TRUE, enabled |-> enabled, domains |-> domains])
    /\ UNCHANGED popup

\* getSettings() has resolved: the rest of handleTabUpdate
ResumeHandleTabUpdate ==
    /\ handlers # <<>>
    /\ Head(handlers).kind = "handleTabUpdate"
    /\ handlers' = Tail(handlers)
    /\ \E h \in {Head(handlers)}, s \in {getSettings(settings)} :
          decide("handleTabUpdate",
                 /\ s.enabled
                 /\ h.url.kind # "missing"
                 /\ matchesDomain(h.url, s.domains),
                 s, h.url, h)
    /\ UNCHANGED <<settings, tab, popup>>
    /\ UNCHANGED <<location, dom, title, referrer, throwing, msgs, assigned, last>>
    /\ UNCHANGED schedVars

\* chrome.tabs.query() has resolved: the rest of the onChanged listener
ResumeOnChanged ==
    /\ handlers # <<>>
    /\ Head(handlers).kind = "onChanged"
    /\ handlers' = Tail(handlers)
    /\ \E h \in {Head(handlers)} :
          \E newSettings \in {getSettings(h.newValue)} :
              decide("onChanged",
                     /\ newSettings.enabled
                     /\ tab.kind # "missing"
                     /\ matchesDomain(tab, newSettings.domains),
                     newSettings, tab, h)
    /\ UNCHANGED <<settings, tab, popup>>
    /\ UNCHANGED <<location, dom, title, referrer, throwing, msgs, assigned, last>>
    /\ UNCHANGED schedVars

NextDispatch ==
    \/ TabUpdated
    \/ Installed
    \/ PopupSaves
    \/ ResumeHandleTabUpdate
    \/ ResumeOnChanged

SpecDispatch == InitRelay /\ [][NextDispatch]_vars

---------------------------------------------------------------------------
\* Documents on system hosts: the top frame, the nested frame or both are
\* served from a host of CONFIG.skipHosts.

HostGoogle ==
    <<"a", "c", "c", "o", "u", "n", "t", "s", ".", "g", "o", "o", "g", "l",
      "e", ".", "c", "o", "m">>
HostFirebase ==
    <<"a", "p", "p", ".", "f", "i", "r", "e", "b", "a", "s", "e", "a", "p",
      "p", ".", "c", "o", "m">>
HostGstatic ==
    <<"w", "w", "w", ".", "g", "s", "t", "a", "t", "i", "c", ".", "c", "o",
      "m">>
HostGoogleapis ==
    <<"w", "w", "w", ".", "g", "o", "o", "g", "l", "e", "a", "p", "i", "s",
      ".", "c", "o", "m">>

InitSkip ==
    /\ InitCommon
    /\ body \in BOOLEAN
    /\ \E h \in {<<HostApp, HostFirebase>>, <<HostGoogle, HostFrame>>,
                 <<HostGstatic, HostGoogleapis>>} :
       \E t \in {h[1]}, c \in {h[2]} :
          location = [f \in Frames |->
              CASE f = "top" -> [hostname |-> t, pathname |-> PathContactPro,
                                 hash |-> HashNone]
                [] f = "child" -> [ChildLocation EXCEPT !.hostname = c]
                [] f = "grand" -> GrandLocation]
    /\ dom = [f \in Frames |->
                 CASE f = "top" -> DocContact [] f = "child" -> DocWorkflow
                   [] f = "grand" -> DocForm]
    /\ referrer = [f \in Frames |-> RefNone]
    /\ throwing = {}

NextSkip ==
    \/ Load
    \/ DOMContentLoaded
    \/ Advance
    \/ FireInitial
    \/ FireObserverDebounce
    \/ FireUpdateDebounce
    \/ Mutation
    \/ HashChange
    \/ Cycle("child")
    \/ Deliver("top")

SpecSkip == InitSkip /\ [][NextSkip]_vars

---------------------------------------------------------------------------
\* The popup's operations as they run: each awaits loadSettings(), changes
\* the object it was given and awaits saveSettings().

\* popup operations started in one run of the model
MaxOps == 2

\* what the user types into the domain field: nothing, a blank, a domain,
\* and a domain with capitals and blanks around it
DomainInputs ==
    {<<>>, <<" ">>, DomainGhl,
     <<" ", "A", "p", "p", ".">> \o DomainGhl \o <<" ">>}

\* Array.prototype.includes
arrayIncludes(list, item) == \E i \in 1..Len(list) : list[i] = item

\* loadSettings(): result.settings || DEFAULT_SETTINGS. What storage holds
\* comes as a copy; when it holds nothing the caller is given the popup's
\* DEFAULT_SETTINGS object itself (ref).
loadSettings == [ref |-> ~settings.stored, value |-> settings]

\* the object an operation holds after its await loadSettings()
settingsOf(snap) == IF snap.ref THEN popup.defaults ELSE snap.value

\* addDomain after loadSettings(): 'Domain already added' and return, or
\* push and save
addDomain(s, domain) ==
    IF arrayIncludes(s.domains, domain)
    THEN [save |-> FALSE, settings |-> s]
    ELSE [save |-> TRUE,
          settings |-> [s EXCEPT !.domains = Append(@, domain)]]

\* removeDomain after loadSettings(): filter and save
removeDomain(s, domain) ==
    [save |-> TRUE,
     settings |-> [s EXCEPT !.domains = SelectSeq(@, LAMBDA d : d # domain)]]

\* toggleEnabled after loadSettings(): enabled = enableToggle.checked, save
toggleEnabled(s, checked) ==
    [save |-> TRUE, settings |-> [s EXCEPT !.enabled = checked]]

\* an operation calls loadSettings(): chrome.storage.sync.get reads
startOperation(name, domain) ==
    popup' = [popup EXCEPT !.ops = Append(@,
                 [name |-> name, domain |-> domain, checked |-> FALSE,
                  snap |-> loadSettings])]

\* the domains that have a remove button: those stored, and those an
\* addDomain of this popup has rendered
rendered ==
    {d \in {DomainGhl, HostApp} :
        \/ arrayIncludes(settings.domains, d)
        \/ \E i \in DOMAIN popup.done :
              popup.done[i].name = "addDomain" /\ popup.done[i].domain = d}

\* the user clicks Add (or presses Enter), a remove button, or the toggle:
\* the handler runs up to its await loadSettings()
PopupClick ==
    /\ Len(popup.ops) + Len(popup.done) < MaxOps
    /\ \/ \E raw \in DomainInputs :
             \E domain \in {toLowerCase(trim(raw))} :
                IF domain = <<>> THEN UNCHANGED popup
                ELSE startOperation("addDomain", domain)
       \/ \E domain \in rendered : startOperation("removeDomain", domain)
       \/ startOperation("toggleEnabled", <<>>)
    /\ UNCHANGED <<settings, tab, handlers, dispatch>>
    /\ UNCHANGED frameVars
    /\ UNCHANGED schedVars

\* loadSettings() has resolved: the rest of the operation up to its
\* chrome.storage.sync.set, which writes the whole object
PopupResume ==
    \E i \in DOMAIN popup.ops, checked \in BOOLEAN :
       \E o \in {popup.ops[i]} :
          \E r \in {CASE o.name = "addDomain" ->
                            addDomain(settingsOf(o.snap), o.domain)
                      [] o.name = "removeDomain" ->
                            removeDomain(settingsOf(o.snap), o.domain)
                      [] o.name = "toggleEnabled" ->
                            toggleEnabled(settingsOf(o.snap), checked)} :
             /\ o.name = "toggleEnabled" \/ ~checked
             /\ popup' = [defaults |-> IF o.snap.ref THEN r.settings
                                        ELSE popup.defaults,
                          ops |-> removeAt(popup.ops, i),
                          done |-> Append(popup.done,
                                          [o EXCEPT !.checked = checked])]
             /\ IF r.save /\ r.settings # settings
                THEN /\ Len(handlers) < MaxHandlers
                     /\ settings' = r.settings
                     /\ handlers' = Append(handlers,
                           [kind |-> "onChanged", url |-> NoUrl,
                            newValue |-> r.settings, atEvent |-> settings])
                ELSE UNCHANGED <<settings, handlers>>
             /\ UNCHANGED <<tab, dispatch>>
             /\ UNCHANGED frameVars
             /\ UNCHANGED schedVars

NextPopup ==
    \/ Installed
    \/ PopupClick
    \/ PopupResume
    \/ ResumeOnChanged

SpecPopup == InitRelay /\ [][NextPopup]_vars

---------------------------------------------------------------------------
(* Properties *)

\* a cycle of the top frame has just run
TopCycled == last.op = "updateTitle" /\ last.frame = "top"

\* C1: with no matching element and path /v2/location/X/some-custom-report,
\* an update cycle of the top frame sets the title to
\* "Some Custom Report | GHL".
C1_UrlFallbackTitle ==
    (/\ TopCycled
     /\ location["top"].pathname = PathCustomReport
     /\ location["top"].hash = HashNone
     /\ dom["top"] = DocEmpty)
    => title["top"] = TitleCustomReportGHL

\* C2: the brand of a cycle is the table's entry for the location
\* identifier when the identifier is a key of the table, and the default
\* brand "GHL" for every other identifier and when there is none.
C2_BrandFromTable ==
    last.op = "updateTitle" =>
        \A id \in {getLocationId(last.frame)} :
            last.brand = IF id.found /\ id.text \in DOMAIN locationNames
                         THEN locationNames[id.text]
                         ELSE <<"G", "H", "L">>

\* C3: a cycle of the top frame that finds a context leaves the title
\* context + " | " + brand; on the ProFeds contact page whose contact-name
\* element reads "Crystal Johnson" that is "Crystal Johnson | ProFeds".
C3_ContactTitle ==
    TopCycled =>
        /\ last.context.found =>
               title["top"] = last.context.text \o <<" ", "|", " ">> \o last.brand
        /\ (/\ location["top"].pathname = PathContactPro
            /\ dom["top"] \in {DocContact, DocContactShort})
           => title["top"] = TitleCrystalProFeds

C3_Witness ==
    /\ TopCycled
    /\ last.wrote
    /\ location["top"].pathname = PathContactPro
    /\ dom["top"] = DocContact
    /\ title["top"] = TitleCrystalProFeds

\* a strategy's return value that the cascade takes: truthy and not blank
Yields(v) == v.found /\ v.text # <<>> /\ trim(v.text) # <<>>

\* C4: the cascade returns the cleaned candidate of the first strategy, in
\* the order contact-detail, workflow, form-builder, active-nav-item,
\* breadcrumb, page-header, URL-path, that yields one, and calls no
\* strategy after it; so a structural candidate wins over a generic one.
C4_CascadeOrder ==
    last.op = "updateTitle" =>
        \A out \in {<<extractFromGHLContactDetail(location[last.frame], dom[last.frame]),
                      extractFromGHLWorkflow(location[last.frame], dom[last.frame]),
                      extractFromGHLFormBuilder(location[last.frame], dom[last.frame]),
                      extractFromActiveNavItem(dom[last.frame]),
                      extractFromBreadcrumb(dom[last.frame]),
                      extractFromPageHeader(dom[last.frame]),
                      extractFromUrlPath(location[last.frame])>>} :
            LET order == <<"extractFromGHLContactDetail", "extractFromGHLWorkflow",
                           "extractFromGHLFormBuilder", "extractFromActiveNavItem",
                           "extractFromBreadcrumb", "extractFromPageHeader",
                           "extractFromUrlPath">>
                hits == {i \in 1..7 : Yields(out[i])}
                first == SetMin(hits)
            IN  IF hits = {}
                THEN /\ last.context = Null
                     /\ last.by = "none"
                     /\ last.called = order
                ELSE /\ last.by = order[first]
                     /\ last.raw = out[first]
                     /\ last.context = Str(cleanContext(out[first].text))
                     /\ last.called = SubSeq(order, 1, first)

C4_Witness ==
    /\ last.op = "updateTitle"
    /\ last.by = "extractFromGHLContactDetail"
    /\ last.called = <<"extractFromGHLContactDetail">>
    /\ Yields(extractFromPageHeader(dom[last.frame]))
    /\ last.context = Str(StrCrystalJohnson)

\* C5: the callbacks of the body observer that arrive while the
\* observer-level debounce is pending, with no other source triggering,
\* cause one debounce-driven call of updateTitle however many they are:
\* never a second, exactly one once no debounce timer is pending, and that
\* one not before the observer-level delay and then the update-level delay
\* have passed since the last callback.
C5_BurstRunsOnce ==
    burst.n >= 1 =>
        /\ burst.runs <= 1
        /\ burst.runs = 1 => burst.waited
        /\ (~pending("observer") /\ ~pending("update")) => burst.runs = 1

C5_Witness ==
    /\ burst.n >= 2
    /\ burst.runs = 1
    /\ burst.waited
    /\ ~pending("observer")
    /\ ~pending("update")
    /\ TopCycled

\* C6: a second run of updateTitle in the top frame right after a first,
\* with nothing changed in between, assigns nothing: the title already is
\* the composed title, and the two runs together made one assignment when
\* the first had a title to change.
C6_SecondRunWritesNothing ==
    (TopCycled /\ last.repeat) =>
        /\ ~last.wrote
        /\ title["top"] = last.before
        /\ last.context.found =>
               /\ title["top"] = last.context.text \o <<" ", "|", " ">> \o last.brand
               /\ (last.prevBefore # title["top"]) = last.prevWrote

C6_Witness ==
    /\ TopCycled
    /\ last.repeat
    /\ last.prevWrote
    /\ ~last.wrote
    /\ last.context.found

\* C7: a frame nested directly under the top frame that computes context
\* "My Workflow" and brand "GHL" posts a title update carrying
\* "My Workflow | GHL" to the top frame, and when a title update of that
\* frame is delivered the top frame's title is the title it carries.
C7_RelayFromChild ==
    /\ (/\ last.op = "updateTitle"
        /\ last.frame = "child"
        /\ last.context = Str(StrMyWorkflow)
        /\ last.brand = <<"G", "H", "L">>)
       => /\ last.posted
          /\ last.msg.title = TitleMyWorkflowGHL
          /\ msgs["top"] # <<>>
          /\ msgs["top"][Len(msgs["top"])] = last.msg
    /\ (/\ last.op = "message"
        /\ last.msg.from = "child")
       => /\ last.frame = "top"
          /\ title["top"] = last.msg.title

C7_Witness ==
    /\ last.op = "message"
    /\ last.frame = "top"
    /\ last.msg.from = "child"
    /\ last.msg.title = TitleMyWorkflowGHL
    /\ last.wrote
    /\ title["top"] = TitleMyWorkflowGHL

\* C8: the script never assigns the title of a nested frame: a nested frame
\* installs no message listener, and neither its cycles nor the messages
\* delivered to it change its title.
C8_NestedNeverAssigns ==
    \A f \in Frames \ {"top"} :
        /\ f \notin assigned
        /\ ~listening[f]
        /\ title[f] = StrInitialTitle
        /\ last.frame = f => ~last.wrote

C8_Witness ==
    /\ last.op = "message"
    /\ last.frame = "child"
    /\ last.msg.title # <<>>
    /\ msgs["top"] # <<>>

\* C9: the title computed by a nested frame at any depth is relayed to the
\* top frame, which applies it: every title update is posted to the top
\* frame, and its delivery leaves the top frame's title equal to it.
C9_EveryFrameRelayedToTop ==
    /\ (last.op = "updateTitle" /\ last.posted) =>
           \E i \in DOMAIN msgs["top"] : msgs["top"][i] = last.msg
    /\ last.op = "message" =>
           /\ last.frame = "top"
           /\ title["top"] = last.msg.title

\* C10: the candidate an extractor returns is longer than the extractor's
\* minimum and shorter than its maximum bound: 100 for the structural
\* extractors, 50 for nav-item and breadcrumb, 60 for the page header.
C10_LengthBounds ==
    (last.op = "updateTitle" /\ last.by \notin {"none", "extractFromUrlPath"}) =>
        /\ Len(last.raw.text) > 1
        /\ Len(last.raw.text) <
               (CASE last.by \in {"extractFromGHLContactDetail",
                                  "extractFromGHLWorkflow",
                                  "extractFromGHLFormBuilder"} -> 100
                  [] last.by \in {"extractFromActiveNavItem",
                                  "extractFromBreadcrumb"} -> 50
                  [] last.by = "extractFromPageHeader" -> 60)

\* the six strategies that read the document
DomExtractors ==
    {"extractFromGHLContactDetail", "extractFromGHLWorkflow",
     "extractFromGHLFormBuilder", "extractFromActiveNavItem",
     "extractFromBreadcrumb", "extractFromPageHeader"}

\* one unbroken run of 15 or more letters and digits
IdentifierShaped(text) ==
    /\ Len(text) >= 15
    /\ \A i \in DOMAIN text : text[i] \in AlphaNum

\* C11: the sanitizer rejects every text that is one unbroken run of 15 or
\* more letters and digits, and no strategy that reads the document
\* returns such a text as the page context.
C11_NoIdentifierContext ==
    /\ \A d \in AllDocs : \A i \in DOMAIN d :
           IdentifierShaped(textContent(d[i])) => ~isHumanReadable(textContent(d[i]))
    /\ (last.op = "updateTitle" /\ last.by \in DomExtractors) =>
           ~IdentifierShaped(last.raw.text)

\* the pending timers that init() set
initTimers == SelectSeq(timers, LAMBDA t : t.kind = "init")

\* C12: however often content.js is executed in a document, init() runs
\* once: no frame is initialized twice, a frame whose flag is set was
\* initialized exactly once (never on a skipped host), init()'s five timers
\* are never set again, and an execution that finds the flag set changes
\* no timer, observer or listener.
C12_OneInitialization ==
    /\ [](\A f \in Frames :
            /\ inits[f] <= 1
            /\ injected[f] => inits[f] = (IF shouldSkipHost(f) THEN 0 ELSE 1))
    /\ [](Len(initTimers) <= 5)
    /\ [][(injected["top"] /\ Load) =>
              UNCHANGED <<injected, inits, ready, listening, timers, lastUrl>>]_vars

C12_Witness ==
    /\ last.op = "inject"
    /\ inits["top"] = 1
    /\ Len(initTimers) < 5
    /\ pending("observer")

\* C13: a strategy that throws is caught in extractPageContext and counts
\* as no-match for that strategy alone: the cascade goes on in order, and
\* its result is that of the same cascade with the throwing strategies
\* returning no-match; the cycle then composes and assigns as always.
C13_ThrowIsNoMatch ==
    last.op = "updateTitle" =>
        \A out \in {<<extractFromGHLContactDetail(location[last.frame], dom[last.frame]),
                      extractFromGHLWorkflow(location[last.frame], dom[last.frame]),
                      extractFromGHLFormBuilder(location[last.frame], dom[last.frame]),
                      extractFromActiveNavItem(dom[last.frame]),
                      extractFromBreadcrumb(dom[last.frame]),
                      extractFromPageHeader(dom[last.frame]),
                      extractFromUrlPath(location[last.frame])>>} :
            LET hits == {i \in 1..7 : strategies[i] \notin throwing /\ Yields(out[i])}
                stop == IF hits = {} THEN 7 ELSE SetMin(hits)
            IN  /\ last.called = SubSeq(strategies, 1, stop)
                /\ last.threw = {strategies[i] : i \in 1..stop} \cap throwing
                /\ IF hits = {}
                   THEN /\ last.context = Null
                        /\ ~last.wrote
                        /\ title[last.frame] = last.before
                   ELSE /\ last.by = strategies[stop]
                        /\ last.context = Str(cleanContext(out[stop].text))
                        /\ title[last.frame] =
                               compose(last.context.text, last.brand)

C13_Witness ==
    /\ last.op = "updateTitle"
    /\ last.threw = {"extractFromGHLContactDetail"}
    /\ Yields(extractFromGHLContactDetail(location["top"], dom["top"]))
    /\ last.by = "extractFromPageHeader"
    /\ last.wrote

\* C14: a cycle in which every strategy yields no-match assigns no title
\* and posts no message: the frame's title is what it was before the
\* cycle, and no message without a context is ever in a queue.
C14_NoMatchNoEffect ==
    /\ (last.op = "updateTitle" /\ last.by = "none") =>
           /\ last.context = Null
           /\ ~last.wrote
           /\ ~last.posted
           /\ last.msg = NoMessage
           /\ title[last.frame] = last.before
    /\ \A f \in Frames : \A i \in DOMAIN msgs[f] : msgs[f][i].context # <<>>

C14_Witness ==
    /\ last.op = "updateTitle"
    /\ last.frame = "grand"
    /\ last.by = "none"
    /\ last.called = strategies
    /\ msgs["child"] = <<>>
    /\ "top" \in assigned
    /\ location["top"].pathname = PathRoot
    /\ dom["top"] = DocEmpty
    /\ title["top"] # StrInitialTitle

\* C15: every assignment to document.title, by a cycle of the top frame or
\* by the message listener, replaces a different title; when the value to
\* assign is the current title nothing is assigned.
C15_WritesAreChangeGated ==
    /\ last.wrote =>
           /\ last.op \in {"updateTitle", "message"}
           /\ last.frame = "top"
           /\ title["top"] # last.before
    /\ (last.op = "updateTitle" /\ last.frame = "top" /\ last.context.found) =>
           /\ title["top"] = compose(last.context.text, last.brand)
           /\ last.wrote = (last.before # title["top"])
    /\ (last.op = "message" /\ last.frame = "top" /\ last.msg.title # <<>>) =>
           /\ title["top"] = last.msg.title
           /\ last.wrote = (last.before # title["top"])

C15_Witness ==
    /\ last.op = "message"
    /\ last.frame = "top"
    /\ ~last.wrote
    /\ last.msg.title = title["top"]
    /\ "top" \in assigned

\* C16: the top frame's listener applies a delivered title update whenever
\* its title is not empty, whoever sent it and whatever its context and
\* brand fields hold, so after a delivery the title is the title of the
\* message last delivered; any other message leaves the title alone.
C16_LastRelayedTitleWins ==
    (last.op = "message" /\ last.frame = "top" /\ listening["top"]) =>
        IF last.msg.type = "GHL_TAB_TITLE_UPDATE" /\ last.msg.title # <<>>
        THEN title["top"] = last.msg.title
        ELSE title["top"] = last.before

C16_Witness ==
    /\ last.op = "message"
    /\ last.frame = "top"
    /\ last.msg.from = "other"
    /\ last.msg.context = <<>>
    /\ last.wrote
    /\ last.before = TitleMyWorkflowGHL
    /\ title["top"] = StrSettings

\* C17: when a REQUEST_BRAND message is delivered to the top frame's
\* listener, the top frame replies with a BRAND_INFO message: after the
\* delivery a reply is in some frame's queue.
C17_BrandRequestServed ==
    (/\ last.op = "message"
     /\ last.frame = "top"
     /\ listening["top"]
     /\ last.msg.type = "REQUEST_BRAND")
    => \E f \in Frames : \E i \in DOMAIN msgs[f] : msgs[f][i].type = "BRAND_INFO"


\* the hostname is the domain or a dot-delimited subdomain of it
HostOf(hostname, domain) ==
    \/ hostname = domain
    \/ \E k \in 1..Len(hostname) :
          /\ hostname[k] = "."
          /\ SubSeq(hostname, k + 1, Len(hostname)) = domain

\* C18: the dispatcher injects only on a decision it took with settings it
\* had obtained (the stored value read while handling a tab update, or the
\* new value of a settings change) that have enabled = true, and for a tab
\* URL that parses and whose hostname is a configured domain or ends with
\* "." + that domain; with the extension disabled, with a missing or
\* unparsable URL, or with a hostname that merely ends with the domain, the
\* decision is not to inject, and the script reaches a frame only by an
\* injecting decision.
C18_InjectsOnlyOnMatch ==
    /\ [](dispatch.injects <=>
            /\ dispatch.op # "none"
            /\ dispatch.enabled
            /\ dispatch.url.kind = "url"
            /\ \E i \in 1..Len(dispatch.domains) :
                  HostOf(dispatch.url.hostname, dispatch.domains[i]))
    /\ [][injected' # injected => dispatch'.injects /\ dispatch' # dispatch]_vars

\* a tab update for app.gohighlevel.com was handled with the extension
\* enabled and gohighlevel.com configured, and the script was injected
C18_Witness ==
    /\ dispatch.op = "handleTabUpdate"
    /\ dispatch.injects
    /\ dispatch.url.hostname = HostApp
    /\ injected["top"]

\* C18 as stated: whenever a tab update leads to an injection, the settings
\* stored at the time of that tab update had enabled = true and a domain
\* matching the tab's hostname
C18_SettingsAtTabUpdate ==
    (dispatch.op = "handleTabUpdate" /\ dispatch.injects) =>
        /\ getSettings(dispatch.atEvent).enabled
        /\ \E i \in 1..Len(dispatch.atEvent.domains) :
              HostOf(dispatch.url.hostname, dispatch.atEvent.domains[i])


\* the timers of one kind that are pending
timersOf(kind) == SelectSeq(timers, LAMBDA t : t.kind = kind)

remaining(k, e) ==
    [i \in 1..(Len(initialTimers) - k) |->
        Timer("init", initialTimers[k + i].due - initialTimers[k + 1].due + e)]

\* C20: init() schedules updateTitle 500, 1500, 3000, 5000 and 8000 ms
\* ahead. The pending ones are always the last few of that sequence, in its
\* order and at its distances, so no trigger cancels, postpones or merges
\* one; one leaves the sequence only as its head, expired, by running
\* updateTitle; otherwise the sequence changes only when init() sets it and
\* when time passes; and once set, all five run.
C20_InitialAttemptsRun ==
    /\ [](inits["top"] = 1 =>
            \/ initTimers = <<>>
            \/ \E k \in 0..(Len(initialTimers) - 1) :
                  initTimers = remaining(k, initTimers[1].due))
    /\ [][initTimers' # initTimers =>
            \/ initTimers = <<>> /\ initTimers' = initialTimers /\ inits'["top"] = 1
            \/ /\ initTimers # <<>>
               /\ initTimers[1].due = 0
               /\ initTimers' = Tail(initTimers)
               /\ last'.op = "updateTitle"
               /\ last'.frame = "top"
            \/ /\ Len(initTimers') = Len(initTimers)
               /\ \E d \in {initTimers[1].due - initTimers'[1].due} :
                     /\ d > 0
                     /\ \A i \in DOMAIN timers :
                           timers'[i] = [timers[i] EXCEPT !.due = @ - d]]_vars
    /\ (inits["top"] = 1) ~> (initTimers = <<>>)

\* the first attempt has just run, at 500 ms, with a debounced call
\* pending next to the four that remain
C20_Witness ==
    /\ Len(initTimers) = 4
    /\ initTimers[1].due = 1000
    /\ pending("update")
    /\ events >= 1
    /\ TopCycled


\* the URL the top frame shows
hrefNow == href(location["top"])

\* C21: when the callback of the URL observer runs (on a mutation of the
\* children of an element, the title element included) with location.href
\* different from the recorded URL, it records the new URL and leaves one
\* debounced update pending a full delay ahead; when href equals the
\* recorded URL it changes neither the recorded URL nor the update timer,
\* and after a mutation the recorded URL is the current one, so later
\* mutations under an unchanged URL do not trigger again. pushState alone
\* changes neither the recorded URL nor any timer: the recorded URL changes
\* only when the observers are set up, on a mutation and on a title write.
C21_UrlObserver ==
    /\ [][(Mutation /\ lastUrl.found /\ hrefNow # lastUrl.text) =>
            /\ lastUrl' = Str(hrefNow)
            /\ timersOf("update")' = <<Timer("update", updateDebounceMs)>>]_vars
    /\ [][(Mutation /\ lastUrl.found /\ hrefNow = lastUrl.text) =>
            /\ lastUrl' = lastUrl
            /\ timersOf("update")' = timersOf("update")]_vars
    /\ [][PushState => UNCHANGED <<timers, lastUrl>>]_vars
    /\ [][lastUrl' # lastUrl =>
            /\ lastUrl' = Str(href(location'["top"]))
            /\ \/ ~lastUrl.found
               \/ last'.op = "mutation"
               \/ last'.op = "updateTitle" /\ last'.wrote]_vars

\* the URL changed and then the application changed the page: the
\* callback of the URL observer recorded the new URL and scheduled the
\* update
C21_Witness ==
    /\ last.op = "mutation"
    /\ events = 2
    /\ location["top"].pathname = PathReports
    /\ lastUrl = Str(hrefNow)
    /\ timersOf("update") = <<Timer("update", updateDebounceMs)>>
    /\ timersOf("observer") = <<Timer("observer", observerDebounceMs)>>
    /\ Len(initTimers) = 5
    /\ initTimers[1].due = 500


\* the text names location id under /location/
NamesLocation(text, id) == includes(text, StrLocationPrefix \o id)

\* the brand of the first of the sources that names a location of the table
BrandOfFirst(sources) ==
    LET named == {i \in DOMAIN sources :
                     \E id \in DOMAIN locationNames : NamesLocation(sources[i], id)}
    IN  IF named = {} THEN defaultBrandName
        ELSE locationNames[CHOOSE id \in DOMAIN locationNames :
                              NamesLocation(sources[SetMin(named)], id)]

\* C22: the brand of a cycle in the nested frame is that of the first
\* source that names a location, in the order own path, referrer, parent
\* path, where the parent's path counts only when the parent has the
\* frame's origin: reading a cross-origin parent fails, the failure is
\* caught, and with no earlier match the brand is the default one.
C22_LocationSourcesInOrder ==
    (last.op = "updateTitle" /\ last.frame = "child") =>
        last.brand =
            BrandOfFirst(<<location["child"].pathname, referrer["child"]>>
                         \o (IF location["child"].hostname = location["top"].hostname
                             THEN <<location["top"].pathname>> ELSE <<>>))

\* the referrer names FedImpact and the same-origin parent's path ProFeds:
\* the frame's own path names none and the brand is FedImpact
C22_Witness ==
    /\ last.op = "updateTitle"
    /\ last.frame = "child"
    /\ location["child"].pathname = PathFrameWorkflow
    /\ location["child"].hostname = HostApp
    /\ referrer["child"] = RefApp
    /\ location["top"].pathname = PathContactPro
    /\ last.brand = BrandFedImpact


\* C23: every context extractPageContext returns is normalized: not empty,
\* at most 60 characters, without two whitespace characters in a row and
\* without whitespace at its start or end, also when the candidate was
\* longer than 60 characters and was cut.
C23_ContextNormalized ==
    (TopCycled /\ Truthy(last.context)) =>
        LET c == last.context.text
        IN  /\ c # <<>>
            /\ Len(c) <= 60
            /\ \A i \in 1..(Len(c) - 1) :
                  ~(c[i] \in WhiteSpace /\ c[i + 1] \in WhiteSpace)
            /\ c[1] \notin WhiteSpace
            /\ c[Len(c)] \notin WhiteSpace


UrlHas(marker) == includes(hrefNow, marker)

\* C25: on a URL without '/contacts/detail/' the contact-detail extractor
\* returns no match whatever the document holds, and so do the workflow
\* extractor without '/workflow' and the form-builder extractor without
\* '/form-builder' and '/forms/'; a cycle on such a URL never takes its
\* context from that extractor, and on a URL with none of the markers the
\* context comes from a generic extractor or from the URL path, if at all.
C25_SpecificExtractorsGated ==
    /\ ~UrlHas(StrContactsDetail) =>
          /\ \A d \in AllDocs : extractFromGHLContactDetail(location["top"], d) = Null
          /\ TopCycled => last.by # "extractFromGHLContactDetail"
    /\ ~UrlHas(StrSlashWorkflow) =>
          /\ \A d \in AllDocs : extractFromGHLWorkflow(location["top"], d) = Null
          /\ TopCycled => last.by # "extractFromGHLWorkflow"
    /\ (~UrlHas(StrFormBuilder) /\ ~UrlHas(StrForms)) =>
          /\ \A d \in AllDocs : extractFromGHLFormBuilder(location["top"], d) = Null
          /\ TopCycled => last.by # "extractFromGHLFormBuilder"
    /\ (/\ TopCycled
        /\ ~UrlHas(StrContactsDetail)
        /\ ~UrlHas(StrSlashWorkflow)
        /\ ~UrlHas(StrFormBuilder)
        /\ ~UrlHas(StrForms)) =>
          last.by \in {"extractFromActiveNavItem", "extractFromBreadcrumb",
                       "extractFromPageHeader", "extractFromUrlPath", "none"}

\* the document holds the workflow's name in the element the workflow
\* extractor looks for, the URL is that of the reports page: the workflow
\* extractor is called and the URL path answers
C25_Witness ==
    /\ TopCycled
    /\ dom["top"] = DocWorkflow
    /\ location["top"].pathname = PathReports
    /\ location["top"].hash = HashNone
    /\ last.by = "extractFromUrlPath"
    /\ last.called[2] = "extractFromGHLWorkflow"


\* C26: a cycle never sets the observer-level timer (the body observer does
\* not see a title write); the only timer a cycle can add is one update
\* timer, and only when it wrote the title while the URL differed from the
\* recorded one; otherwise a cycle leaves the timers it found, less the one
\* that ran it. After a write the recorded URL is the current one, so the
\* cycle that follows adds nothing; and the page comes to rest: from some
\* point on no timer is pending.
C26_NoUpdateLoop ==
    /\ [][(last'.op = "updateTitle" /\ ~Advance /\ ~FireObserverDebounce) =>
            /\ timersOf("observer")' = timersOf("observer")
            /\ \/ timersOf("init")' = timersOf("init")
               \/ /\ timersOf("init") # <<>>
                  /\ timersOf("init")' = Tail(timersOf("init"))
            /\ IF last'.wrote /\ lastUrl.found /\ hrefNow # lastUrl.text
               THEN timersOf("update")' = <<Timer("update", updateDebounceMs)>>
               ELSE /\ timersOf("update")' \in {timersOf("update"), <<>>}
                    /\ Len(timers') <= Len(timers)]_vars
    /\ []((TopCycled /\ last.wrote /\ lastUrl.found) => lastUrl.text = hrefNow)
    /\ <>[](timers = <<>>)

\* the title was written by the timer that ran last, and nothing is pending
C26_Witness ==
    /\ TopCycled
    /\ last.wrote
    /\ lastUrl.found
    /\ inits["top"] = 1
    /\ timers = <<>>


\* C27: in the top frame the two writers do not arbitrate. After a cycle
\* that found a context the title is the frame's own composed title,
\* whatever relayed title was there before; after the delivery of a title
\* update with a title, to the installed listener, the title is the relayed
\* one, whatever the frame's own context is: the writer that ran last wins.
C27_LastWriterWins ==
    /\ (TopCycled /\ Truthy(last.context)) =>
          /\ title["top"] = compose(last.context.text, last.brand)
          /\ last.wrote = (last.before # title["top"])
    /\ (/\ last.op = "message"
        /\ last.frame = "top"
        /\ listening["top"]
        /\ last.msg.type = "GHL_TAB_TITLE_UPDATE"
        /\ last.msg.title # <<>>) =>
          /\ title["top"] = last.msg.title
          /\ last.wrote = (last.before # title["top"])

\* the workflow's title, relayed by the nested frame, was in place when a
\* cycle of the top frame replaced it with the contact's
C27_Witness ==
    /\ TopCycled
    /\ last.wrote
    /\ last.before = TitleMyWorkflowGHL
    /\ title["top"] = TitleCrystalProFeds


\* a debounced call is waiting for its delay to run out
pendingDebounce == pending("observer") \/ pending("update")

conflict(a, b) ==
    \/ /\ a.name = "toggleEnabled" /\ b.name = "toggleEnabled"
       /\ a.checked # b.checked
    \/ /\ {a.name, b.name} = {"addDomain", "removeDomain"}
       /\ a.domain = b.domain

\* the stored settings show what the operation did
reflected(o) ==
    CASE o.name = "addDomain" -> arrayIncludes(settings.domains, o.domain)
      [] o.name = "removeDomain" -> ~arrayIncludes(settings.domains, o.domain)
      [] o.name = "toggleEnabled" -> settings.enabled = o.checked

\* C29: popup updates are not lost under interleaving. Once the operations
\* that were started have completed, the stored settings show the effect of
\* every one of them that no other one contradicts: an added domain is in
\* the list, a removed domain is not, and 'enabled' is what the toggle set.
C29_NoLostUpdate ==
    popup.ops = <<>> =>
       \A i \in DOMAIN popup.done :
          (\A j \in DOMAIN popup.done : ~conflict(popup.done[i], popup.done[j]))
             => reflected(popup.done[i])


\* the host name of frame f contains one of the system-host substrings
onSystemHost(f) ==
    \E skip \in {<<"f", "i", "r", "e", "b", "a", "s", "e", "a", "p", "p",
                   ".", "c", "o", "m">>,
                 <<"g", "o", "o", "g", "l", "e", "a", "p", "i", "s", ".",
                   "c", "o", "m">>,
                 <<"g", "s", "t", "a", "t", "i", "c", ".", "c", "o", "m">>,
                 <<"g", "o", "o", "g", "l", "e", ".", "c", "o", "m">>} :
        includes(location[f].hostname, skip)

\* the messages frame f has posted and that wait for delivery
postedBy(f) ==
    {m \in UNION {{msgs[g][i] : i \in DOMAIN msgs[g]} : g \in Frames} :
        m.from = f}

\* C30: in a document on a system host the script does nothing, however
\* often it is injected: the frame is never initialized, has no listener,
\* runs no cycle, posts no message and its title stays what the page set;
\* when it is the top frame no timer is ever pending and the observers are
\* never installed, so a message relayed to it changes nothing either.
C30_SystemHostsInert ==
    \A f \in Frames :
       onSystemHost(f) =>
          /\ inits[f] = 0
          /\ ~ready[f]
          /\ ~listening[f]
          /\ f \notin assigned
          /\ title[f] = StrInitialTitle
          /\ postedBy(f) = {}
          /\ last.op = "updateTitle" => last.frame # f
          /\ f = "top" => (timers = <<>> /\ ~lastUrl.found)

\* the script is injected again into a top document on a system host: the
\* nested frame, initialized by an earlier injection, has posted a title
\* that waits for delivery
C30_Witness ==
    /\ onSystemHost("top")
    /\ injected["top"]
    /\ last.op = "inject"
    /\ msgs["top"] # <<>>
    /\ body

====
